---- MODULE Spec2Model ----
(***************************************************************************)
(* Model of the SMS approval service: the inbound pipeline                 *)
(* (services/smsProcessor.js), the persistent store (services/supabase.js),*)
(* the in-memory pending-action registry (services/pendingActions.js) and  *)
(* the approval routes (routes/approval.js: Telegram callback and web      *)
(* form).                                                                  *)
(*                                                                         *)
(* Granularity.  The server is a single event loop: a handler runs without *)
(* interruption from one `await` of a network call to the next.  Every     *)
(* action below is one such segment: the awaited call takes effect, then   *)
(* the synchronous code that follows it runs up to the point where the     *)
(* next network call is issued.  Handlers of different requests interleave *)
(* segment by segment.  Awaited calls that touch no modelled state         *)
(* (answerCallback, the context lookups, the reviewer notifications at the *)
(* end of a decision) are folded into the neighbouring segment.            *)
(*                                                                         *)
(* Collaborators whose outcome the code branches on (the evaluator, the    *)
(* apply endpoint, the SMS provider, the approval channel) answer          *)
(* nondeterministically.  The persistent store answers every call.         *)
(*                                                                         *)
(* Texts are sequences of one-character strings so that trimming and       *)
(* emptiness are computed, not assumed.                                    *)
(***************************************************************************)
EXTENDS Integers, Sequences, FiniteSets, TLC

\* ---------------------------------------------------------------- bounds
\* deliveries of the intake specification
MaxDeliveries == 2
\* events of the approval specification: drafts that arrive and decision
\* events that are received, counted together
MaxEvents == 3

\* ------------------------------------------------------- program constants
ACTION_TTL_MS == 6 * 60 * 60 * 1000

\* ------------------------------------------------------------ input sets
\* requests in flight at a time: two handlers of each kind; a handler that
\* has finished takes the next request
InProcs == {1, 2}
DecProcs == {1, 2}
\* every delivery stores at most one inbound row and one draft row; the
\* two specifications run apart
MaxRows == 2 * (IF MaxDeliveries > MaxEvents THEN MaxDeliveries ELSE MaxEvents)
RowIds == 1..MaxRows

\* provider message ids of inbound deliveries; 0 stands for an absent id
NoSid == 0
Sids == {0, 1}
\* sid the provider assigns to the outbound SMS of message row id
OutSid(id) == 100 + id

Phones == {"+15145550001"}
\* result of extractClientName: "" stands for null
ClientNames == {"", "Sarah"}

\* instants the clock can show: around the registry's expiry boundary
ClockValues == {0, ACTION_TTL_MS, ACTION_TTL_MS + 1}

MenuTypes == {"update_menu", "add_menu", "remove_menu"}
\* answers of the dry-run evaluator (evaluateMenuChange): ok, data.status,
\* data.action ("" stands for an absent action)
EvalResults ==
  { [ok |-> TRUE, status |-> "ready", action |-> "update_menu"],
    [ok |-> TRUE, status |-> "ready", action |-> "none"],
    [ok |-> TRUE, status |-> "no_action", action |-> ""],
    [ok |-> FALSE, status |-> "", action |-> ""] }

\* the text generateDraftReply produced
DraftText == <<"d">>
\* editedBody values of the web form
EditedBodies == { <<>>, <<" ">>, <<"x">>, <<" ", "x", " ">>, <<"d">> }

\* checkReminders runs started (the interval fires every 60 s)
MaxChecks == 4

\* reminderScheduler.js:171  newRetryCount >= 3 ends the retries
MAX_RETRIES == 3

\* reminders of the table, and the checkReminders runs in progress at once
ReminderIds == {1, 2}
RunProcs == {1, 2}

\* rows of draft_corrections the reconciliation job is shown
MaxCorrections == 11

\* corrections.js:214  .limit(10): rows one reconciliation run retries
RECONCILE_LIMIT == 10

CorrIds == 1 .. MaxCorrections

\* inbound messages whose context is gathered and whose draft is generated
MaxInbound == 3

\* ----------------------------------------------------------------- state
VARIABLES
  now,                \* Date.now(): the latest reading of the clock
  sms_conversations,  \* table sms_conversations: sequence of rows, id = index
  sms_messages,       \* table sms_messages: sequence of rows, id = index
  draft_corrections,  \* table draft_corrections: sequence of rows
  pendingActions,     \* the Map of pendingActions.js: row id -> entry
  ip,                 \* inbound handlers: position and locals
  dp,                 \* decision handlers: position and locals
  smsInvoked,         \* row id -> number of sendSMS calls issued
  applyInvoked,       \* row id -> number of applyMenuChange calls issued
  applyOk,            \* row id -> number of apply calls that returned applied
  approvalRequests,   \* row id -> number of approval requests delivered
  inboundMirror,      \* number of sendInboundSms calls of direction inbound
  hadAction,          \* row id -> type of the PendingAction registered at draft time, "" for none
  rejectProcessed,    \* row id -> a reject decision has been processed
  delivered,          \* number of deliveries received
  decided,            \* number of decision events received
  reminders,          \* table reminders: id -> row ("" for no row yet)
  rr,                 \* checkReminders runs: position and locals
  vapiCalls,          \* reminder id -> number of calls placed with the voice API
  reminderNotices,    \* reminder id -> number of sendMessage notices issued
  checks,             \* number of checkReminders runs started
  ruleColumns,        \* draft_corrections: correction_rule and promoted_to_mem0 of the rows written to
  rj,                 \* the reconciliation job: position and locals
  gen                 \* context gathering and draft generation: position and locals

vars == << now, sms_conversations, sms_messages, draft_corrections,
           pendingActions, ip, dp, smsInvoked, applyInvoked, applyOk,
           approvalRequests, inboundMirror, hadAction, rejectProcessed,
           delivered, decided, reminders, rr, vapiCalls, reminderNotices,
           checks, ruleColumns, rj, gen >>

\* the state of intake and approval
Core == << now, sms_conversations, sms_messages, draft_corrections,
           pendingActions, ip, dp, smsInvoked, applyInvoked, applyOk,
           approvalRequests, inboundMirror, hadAction, rejectProcessed,
           delivered, decided >>
\* the state of the reminder scheduler, of the correction learner and of
\* the draft generator
ReminderVars == << reminders, rr, vapiCalls, reminderNotices, checks >>
LearnerVars == << ruleColumns, rj >>
Rest == << ReminderVars, LearnerVars, gen >>

NoEntry == [type |-> "", timestamp |-> -1]
NoConv == [id |-> 0, phone_number |-> "", client_name |-> "",
           message_count |-> 0, last_message_at |-> -1]
NoMessage == [id |-> 0, conversation_id |-> 0, direction |-> "",
              twilio_sid |-> NoSid, body |-> <<>>, draft_body |-> <<>>,
              status |-> ""]

IdleIn == [pc |-> "idle", sid |-> NoSid, from |-> "", existing |-> NoConv,
           convId |-> 0, draftId |-> 0, result |-> "", late |-> FALSE,
           convWrites |-> 0, lookup |-> "", twiml |-> "",
           sendApproval |-> FALSE]

IdleDec == [pc |-> "idle", front |-> "", action |-> "", mid |-> 0,
            body |-> <<>>, isEdit |-> FALSE, dbMessage |-> NoMessage,
            found |-> "", applyStatus |-> "", sendCalled |-> FALSE,
            wrote |-> FALSE, start |-> "", alone |-> FALSE,
            finalBody |-> <<>>, sendFailed |-> FALSE, incomingContext |-> 0,
            answer |-> 0]

\* ------------------------------------------------------- text operations
IsSpace(c) == c = " "

RECURSIVE TrimLeft(_)
TrimLeft(s) ==
  IF s = <<>> THEN <<>>
  ELSE IF IsSpace(Head(s)) THEN TrimLeft(Tail(s)) ELSE s

RECURSIVE TrimRight(_)
TrimRight(s) ==
  IF s = <<>> THEN <<>>
  ELSE IF IsSpace(s[Len(s)]) THEN TrimRight(SubSeq(s, 1, Len(s) - 1)) ELSE s

\* variant: the text is taken as typed
Trim_AsTyped(s) == s

\* String.prototype.trim
Trim(s) == TrimRight(TrimLeft(s))

\* ------------------------------------------- services/pendingActions.js
\* variant: the registration is left for after the approval request
setPendingAction_Late(map, messageId, type, at) == map

\* setPendingAction(messageId, action): the Map after the call
setPendingAction(map, messageId, type, at) ==
  IF messageId = 0 \/ type = "" THEN map
  ELSE [map EXCEPT ![messageId] = [type |-> type, timestamp |-> at]]

\* variant: an entry is expired from the age of ACTION_TTL_MS on
getPendingAction_AtTtl(messageId, at) ==
  LET entry == pendingActions[messageId] IN
  IF entry = NoEntry THEN NoEntry
  ELSE IF at - entry.timestamp >= ACTION_TTL_MS THEN NoEntry
  ELSE entry

\* getPendingAction(messageId): the entry returned, NoEntry for null
getPendingAction(messageId, at) ==
  LET entry == pendingActions[messageId] IN
  IF entry = NoEntry THEN NoEntry
  ELSE IF at - entry.timestamp > ACTION_TTL_MS THEN NoEntry
  ELSE entry

\* variant: an expired entry is reported absent but left in the Map
getPendingActionPurge_NoDelete(map, messageId, at) == map

\* getPendingAction(messageId): the Map after the call (lazy purge)
getPendingActionPurge(map, messageId, at) ==
  LET entry == map[messageId] IN
  IF entry # NoEntry /\ at - entry.timestamp > ACTION_TTL_MS
    THEN [map EXCEPT ![messageId] = NoEntry]
    ELSE map

\* variant: the call empties the Map
clearPendingAction_All(map, messageId) == [i \in DOMAIN map |-> NoEntry]

\* clearPendingAction(messageId): the Map after the call
clearPendingAction(map, messageId) == [map EXCEPT ![messageId] = NoEntry]

\* ------------------------------------------------- services/supabase.js
\* rows of sms_conversations with this phone number
ConvsOf(phone) ==
  { i \in DOMAIN sms_conversations : sms_conversations[i].phone_number = phone }

\* .select('*').eq('phone_number', ..).single(): a row only when exactly one
FindConversation(phone) ==
  IF Cardinality(ConvsOf(phone)) = 1
    THEN sms_conversations[CHOOSE i \in ConvsOf(phone) : TRUE]
    ELSE NoConv

\* variant: the lookup filters on the wrong direction
checkMessageExists_Outbound(twilioSid) ==
  \E i \in DOMAIN sms_messages :
    sms_messages[i].twilio_sid = twilioSid /\ sms_messages[i].direction = "outbound"

\* checkMessageExists(twilioSid)
checkMessageExists(twilioSid) ==
  \E i \in DOMAIN sms_messages : sms_messages[i].twilio_sid = twilioSid

\* storeIncomingMessage: the table after the insert
storeIncomingMessage(tbl, conversationId, twilioSid) ==
  Append(tbl,
         [id |-> Len(tbl) + 1, conversation_id |-> conversationId,
          direction |-> "inbound", twilio_sid |-> twilioSid, body |-> <<"m">>,
          draft_body |-> <<>>, status |-> "received"])

\* storeDraftReply: the table after the insert
storeDraftReply(tbl, conversationId, draftBody) ==
  Append(tbl,
         [id |-> Len(tbl) + 1, conversation_id |-> conversationId,
          direction |-> "outbound", twilio_sid |-> NoSid, body |-> <<>>,
          draft_body |-> draftBody, status |-> "pending_approval"])

\* getMessage(messageId): the row, NoMessage for null
getMessage(messageId) ==
  IF messageId \in DOMAIN sms_messages THEN sms_messages[messageId]
  ELSE NoMessage

\* variant: the update sets the status and leaves the body
approveMessage_StatusOnly(tbl, messageId, finalBody) ==
  IF messageId \in DOMAIN tbl
    THEN [tbl EXCEPT ![messageId].status = "approved"]
    ELSE tbl

\* approveMessage(messageId, finalBody): the table after the update;
\* body = finalBody || existing.draft_body || ''
approveMessage(tbl, messageId, finalBody) ==
  IF messageId \in DOMAIN tbl
    THEN [tbl EXCEPT
            ![messageId].body =
               IF finalBody # <<>> THEN finalBody
               ELSE tbl[messageId].draft_body,
            ![messageId].status = "approved"]
    ELSE tbl

\* markMessageSent(messageId, twilioSid): the table after the update
markMessageSent(tbl, messageId, twilioSid) ==
  IF messageId \in DOMAIN tbl
    THEN [tbl EXCEPT ![messageId].twilio_sid = twilioSid,
                     ![messageId].status = "sent"]
    ELSE tbl

\* rejectMessage(messageId): the table after the update
rejectMessage(tbl, messageId) ==
  IF messageId \in DOMAIN tbl
    THEN [tbl EXCEPT ![messageId].status = "rejected"]
    ELSE tbl

\* ------------------------------------------------- initial values, rest
NoReminder == [status |-> "", retry_count |-> 0]

\* a run of checkReminders: queue is what is left of dueReminders, the rows
\* as the query returned them; its head is the reminder being processed
IdleRun == [pc |-> "idle", queue |-> <<>>, outcome |-> "", claimed |-> FALSE,
            lost |-> FALSE]

ReminderInit ==
  /\ reminders = [i \in ReminderIds |-> NoReminder]
  /\ rr = [r \in RunProcs |-> IdleRun]
  /\ vapiCalls = [i \in ReminderIds |-> 0]
  /\ reminderNotices = [i \in ReminderIds |-> 0]
  /\ checks = 0

\* the learner's columns of a draft_corrections row: extraction is the
\* position of the fire-and-forget extractCorrectionRule of the row
NoRule == [correction_rule |-> FALSE, promoted_to_mem0 |-> FALSE,
           extraction |-> "todo"]

\* the reconciliation job: the timer of app.listen is pending, or the run
\* goes through its batch, or it is over
IdleJob == [pc |-> "timer", batch |-> <<>>, retried |-> 0]

LearnerInit ==
  /\ ruleColumns = [k \in {} |-> NoRule]
  /\ rj = IdleJob

\* evaluateMenuChange was not called
NoEval == [ok |-> FALSE, status |-> "not_called", action |-> ""]

\* no first-contact reply was built
NoReply == [greeting |-> "", lang |-> "", type |-> "", questions |-> <<>>]

\* processIncomingMessage from the context lookups to the draft: the
\* outcome and the value of each lookup, the mode and the kind of the
\* draft, the text of the message and the reply of the template
IdleGen == [pc |-> "idle", convId |-> 0, first |-> FALSE,
            outcome |-> [l \in {"client", "business", "calendar", "history"} |-> ""],
            clientContext |-> "", businessContext |-> "",
            calendarContext |-> "", history |-> 0,
            mode |-> "", modelCall |-> "", draft |-> "",
            draftMessage |-> NoMessage, result |-> "",
            incomingMessage |-> {}, reply |-> NoReply,
            actionResult |-> NoEval]

RestInit ==
  /\ ReminderInit
  /\ LearnerInit
  /\ gen = IdleGen

\* ------------------------------------------------------------------ Init
Init ==
  /\ now = 0
  /\ sms_conversations = <<>>
  /\ sms_messages = <<>>
  /\ draft_corrections = <<>>
  /\ pendingActions = [i \in RowIds |-> NoEntry]
  /\ ip = [p \in InProcs |-> IdleIn]
  /\ dp = [p \in DecProcs |-> IdleDec]
  /\ smsInvoked = [i \in RowIds |-> 0]
  /\ applyInvoked = [i \in RowIds |-> 0]
  /\ applyOk = [i \in RowIds |-> 0]
  /\ approvalRequests = [i \in RowIds |-> 0]
  /\ inboundMirror = 0
  /\ hadAction = [i \in RowIds |-> ""]
  /\ rejectProcessed = [i \in RowIds |-> FALSE]
  /\ delivered = 0
  /\ decided = 0
  /\ RestInit

\* Date.now(): a reading of the clock is at or after the reading before it
ClockReadings == { t \in ClockValues : t >= now }


\* ---------------------------------------------- services/smsProcessor.js
\* A delivery arrives: the webhook answers it with the empty TwiML,
\* processIncomingMessage(message, options) starts and issues the
\* conversation lookup of getOrCreateConversation.  Deliveries
\* are numbered in the order of their arrival.  The parts of the request
\* that are used once (the sender's name, options.sendApproval) are drawn
\* where they are used.
Receive(p) ==
  /\ ip[p].pc \in {"idle", "done"}
  /\ \A q \in InProcs : q < p => ip[q].pc \notin {"idle", "done"}
  /\ delivered < MaxDeliveries
  /\ \E sid \in Sids, from \in Phones :
       ip' = [ip EXCEPT ![p] =
                [IdleIn EXCEPT !.pc = "conv_find", !.sid = sid, !.from = from,
                               !.twiml = "empty",
                               !.late =
                                  (sid # NoSid /\
                                   \E i \in DOMAIN sms_messages :
                                      sms_messages[i].twilio_sid = sid)]]
  /\ UNCHANGED << now, sms_conversations, sms_messages, draft_corrections,
                  pendingActions, dp, smsInvoked, applyInvoked, applyOk,
                  approvalRequests, inboundMirror, hadAction, rejectProcessed,
                  decided >>
  /\ delivered' = delivered + 1
  /\ UNCHANGED Rest

\* getOrCreateConversation: the select returns; the update or the insert
\* is issued.
ConvFind(p) ==
  /\ ip[p].pc = "conv_find"
  /\ ip' = [ip EXCEPT ![p].existing = FindConversation(ip[p].from),
                      ![p].pc = "conv_write"]
  /\ UNCHANGED << now, sms_conversations, sms_messages, draft_corrections,
                  pendingActions, dp, smsInvoked, applyInvoked, applyOk,
                  approvalRequests, inboundMirror, hadAction, rejectProcessed,
                  delivered, decided >>
  /\ UNCHANGED Rest

\* the table after getOrCreateConversation's write, given its snapshot
getOrCreateConversation(tbl, existing, phoneNumber, clientName, at) ==
  IF existing # NoConv
    THEN [tbl EXCEPT
            ![existing.id].last_message_at = at,
            ![existing.id].message_count = existing.message_count + 1,
            ![existing.id].client_name =
               IF clientName # "" /\ existing.client_name = ""
                 THEN clientName
                 ELSE tbl[existing.id].client_name]
    ELSE Append(tbl,
                [id |-> Len(tbl) + 1,
                 phone_number |-> phoneNumber, client_name |-> clientName,
                 message_count |-> 1, last_message_at |-> at])

\* variant: the dedup lookup is made for every message
HasSid_Always(sid) == TRUE

\* part_001:73  if (message.messageSid): an absent or empty id is falsy
HasSid(sid) == sid # NoSid

\* getOrCreateConversation: the write returns; processIncomingMessage
\* goes on to the dedup lookup when the message carries a sid, to the
\* insert of the inbound row otherwise.
ConvWrite(p) ==
  /\ ip[p].pc = "conv_write"
  /\ \E clientName \in ClientNames :
       sms_conversations' =
         getOrCreateConversation(sms_conversations, ip[p].existing, ip[p].from,
                                 clientName, now)
  /\ ip' = [ip EXCEPT
              ![p].convId = IF ip[p].existing # NoConv THEN ip[p].existing.id
                            ELSE Len(sms_conversations) + 1,
              ![p].convWrites = ip[p].convWrites + 1,
              ![p].existing = NoConv,
              ![p].pc = IF HasSid(ip[p].sid) THEN "check" ELSE "store"]
  /\ UNCHANGED << now, sms_messages, draft_corrections, pendingActions, dp,
                  smsInvoked, applyInvoked, applyOk, approvalRequests,
                  inboundMirror, hadAction, rejectProcessed,
                  delivered, decided >>
  /\ UNCHANGED Rest

\* checkMessageExists returns: a duplicate ends the call with
\* {success: true, duplicate: true}.
DedupCheck(p) ==
  /\ ip[p].pc = "check"
  /\ ip' = IF checkMessageExists(ip[p].sid)
             THEN [ip EXCEPT ![p].pc = "done", ![p].result = "duplicate",
                             ![p].lookup = "answered"]
             ELSE [ip EXCEPT ![p].pc = "store", ![p].lookup = "answered"]
  /\ UNCHANGED << now, sms_conversations, sms_messages, draft_corrections,
                  pendingActions, dp, smsInvoked, applyInvoked, applyOk,
                  approvalRequests, inboundMirror, hadAction, rejectProcessed,
                  delivered, decided >>
  /\ UNCHANGED Rest

\* checkMessageExists fails.  An error result leaves data null and the
\* function answers false: the message is stored.  A rejected promise is
\* not caught in checkMessageExists; the catch of processIncomingMessage
\* ends the call with {success: false}.
DedupLookupFails(p) ==
  /\ ip[p].pc = "check"
  /\ \E how \in {"error", "throws"} :
       ip' = IF how = "error"
               THEN [ip EXCEPT ![p].pc = "store", ![p].lookup = "error"]
               ELSE [ip EXCEPT ![p].pc = "done", ![p].result = "failed",
                               ![p].lookup = "throws"]
  /\ UNCHANGED << now, sms_conversations, sms_messages, draft_corrections,
                  pendingActions, dp, smsInvoked, applyInvoked, applyOk,
                  approvalRequests, inboundMirror, hadAction, rejectProcessed,
                  delivered, decided >>
  /\ UNCHANGED Rest

\* storeIncomingMessage returns; the mirror call sendInboundSms is issued.
\* The awaits that follow (mirror, context lookups, evaluator, correction
\* rules, draft generation) change no state; the insert of the draft is
\* issued at their end.
StoreInbound(p) ==
  /\ ip[p].pc = "store"
  /\ sms_messages' = storeIncomingMessage(sms_messages, ip[p].convId, ip[p].sid)
  /\ inboundMirror' = inboundMirror + 1
  /\ ip' = [ip EXCEPT ![p].pc = "store_draft"]
  /\ UNCHANGED << now, sms_conversations, draft_corrections, pendingActions, dp,
                  smsInvoked, applyInvoked, applyOk, approvalRequests,
                  hadAction, rejectProcessed,
                  delivered, decided >>
  /\ UNCHANGED Rest

\* variant: the failure of the insert is logged and the processing goes on
OnStoreFailure_GoesOn == [pc |-> "store_draft", result |-> ""]

\* part_001:207-210  the catch of processIncomingMessage: what is thrown
\* inside ends the call with {success: false}
OnStoreFailure == [pc |-> "done", result |-> "failed"]

\* storeIncomingMessage fails: its insert returns an error and the
\* function throws; no row is stored.
StoreInboundFails(p) ==
  /\ ip[p].pc = "store"
  /\ ip' = [ip EXCEPT ![p].pc = OnStoreFailure.pc,
                      ![p].result = OnStoreFailure.result]
  /\ UNCHANGED << now, sms_conversations, sms_messages, draft_corrections,
                  pendingActions, dp, smsInvoked, applyInvoked, applyOk,
                  approvalRequests, inboundMirror, hadAction, rejectProcessed,
                  delivered, decided >>
  /\ UNCHANGED Rest

\* variant: an action type seeds a PendingAction whatever the status
SeedsAction_AnyStatus(actionResult) ==
  actionResult.ok /\ actionResult.action # ""

\* part_001:147  the evaluator's answer seeds a PendingAction
SeedsAction(actionResult) ==
  actionResult.ok /\ actionResult.status = "ready" /\ actionResult.action # ""

\* variant: the approval request is sent whatever the option says
AfterDraft_AlwaysNotifies(shouldSendApproval) == "notify"

\* part_001:168-170  the approval request is sent only when
\* options.sendApproval is not false and the approval channel is configured
AfterDraft(shouldSendApproval) ==
  IF shouldSendApproval THEN "notify" ELSE "done"

\* storeDraftReply returns; the PendingAction is registered when the
\* evaluator answered ready; the approval request is issued when wanted.
StoreDraft(p) ==
  /\ ip[p].pc = "store_draft"
  /\ \E actionResult \in EvalResults, sendApproval \in BOOLEAN :
       LET id == Len(sms_messages) + 1 IN
       /\ sms_messages' = storeDraftReply(sms_messages, ip[p].convId, DraftText)
       /\ pendingActions' =
            IF SeedsAction(actionResult)
              THEN setPendingAction(pendingActions, id, actionResult.action, now)
              ELSE pendingActions
       /\ hadAction' = [hadAction EXCEPT ![id] = IF SeedsAction(actionResult)
                                                  THEN actionResult.action
                                                  ELSE ""]
       /\ ip' = [ip EXCEPT ![p].draftId = id,
                           ![p].result = "processed",
                           ![p].sendApproval = sendApproval,
                           ![p].pc = AfterDraft(sendApproval)]
  /\ UNCHANGED << now, sms_conversations, draft_corrections, dp, smsInvoked,
                  applyInvoked, applyOk, approvalRequests, inboundMirror,
                  rejectProcessed,
                  delivered, decided >>
  /\ UNCHANGED Rest

\* sendApprovalRequest returns: a message id, or null and the draft is
\* auto-approved.
Notify(p) ==
  /\ ip[p].pc = "notify"
  /\ \E telegramResult \in BOOLEAN :
       IF telegramResult
         THEN /\ approvalRequests' =
                   [approvalRequests EXCEPT ![ip[p].draftId] = @ + 1]
              /\ ip' = [ip EXCEPT ![p].pc = "done"]
         ELSE /\ UNCHANGED approvalRequests
              /\ ip' = [ip EXCEPT ![p].pc = "auto_approve"]
  /\ UNCHANGED << now, sms_conversations, sms_messages, draft_corrections,
                  pendingActions, dp, smsInvoked, applyInvoked, applyOk,
                  inboundMirror, hadAction, rejectProcessed,
                  delivered, decided >>
  /\ UNCHANGED Rest

\* approveMessage(draftMessage.id, draftReply) of the auto-approval returns.
AutoApprove(p) ==
  /\ ip[p].pc = "auto_approve"
  /\ sms_messages' = approveMessage(sms_messages, ip[p].draftId, DraftText)
  /\ ip' = [ip EXCEPT ![p].pc = "done"]
  /\ UNCHANGED << now, sms_conversations, draft_corrections, pendingActions, dp,
                  smsInvoked, applyInvoked, applyOk, approvalRequests,
                  inboundMirror, hadAction, rejectProcessed,
                  delivered, decided >>
  /\ UNCHANGED Rest

processIncomingMessage(p) ==
  \/ Receive(p)
  \/ ConvFind(p)
  \/ ConvWrite(p)
  \/ DedupCheck(p)
  \/ StoreInbound(p)
  \/ StoreDraft(p)
  \/ Notify(p)
  \/ AutoApprove(p)


\* ---------------------------------------------------- routes/approval.js
DecFrame == << now, sms_conversations, ip, approvalRequests, inboundMirror,
               hadAction, delivered >>

\* drafts a decision can name
Drafts == { i \in DOMAIN sms_messages : sms_messages[i].direction = "outbound" }

\* where the row stands when a decision event arrives: still
\* pending_approval, taken out of it by an earlier decision, or
\* auto-approved with no decision yet
StartOf(id) ==
  IF sms_messages[id].status = "pending_approval" THEN "pending"
  ELSE IF rejectProcessed[id] \/ smsInvoked[id] > 0 \/ applyInvoked[id] > 0
    THEN "decided"
  ELSE "auto"

\* no decision for the row is in flight
NoneInFlight(id) ==
  \A q \in DecProcs : dp[q].pc \in {"idle", "done"} \/ dp[q].mid # id

\* getLastInboundContext(conversationId): the newest inbound message of the
\* conversation (a message stands for its body), 0 when there is none
getLastInboundContext(conversationId) ==
  LET inbound == { i \in DOMAIN sms_messages :
                     /\ sms_messages[i].direction = "inbound"
                     /\ sms_messages[i].conversation_id = conversationId }
  IN IF inbound = {} THEN 0
     ELSE CHOOSE i \in inbound : \A j \in inbound : j <= i

\* variant: only edits are recorded
storeCorrection_EditsOnly(action, incomingContext, originalDraft, correctedText, sourceRecordId) ==
  IF action = "edit"
    THEN Append(draft_corrections,
                [action |-> action, incoming_context |-> incomingContext,
                 original_draft |-> originalDraft,
                 corrected_text |-> correctedText,
                 source_record_id |-> sourceRecordId])
    ELSE draft_corrections

\* storeCorrection: the table after the insert; corrected_text is
\* correctedText || null, the empty text standing for null.  The callers
\* do not await the insert; it is taken to land when it is issued.
storeCorrection(action, incomingContext, originalDraft, correctedText, sourceRecordId) ==
  Append(draft_corrections,
         [action |-> action, incoming_context |-> incomingContext,
          original_draft |-> originalDraft,
          corrected_text |-> correctedText,
          source_record_id |-> sourceRecordId])

\* handleCallbackQuery: a button press arrives; the callback is
\* acknowledged and the handler of the action issues getMessage.
\* Decision events are numbered in the order of their arrival.
handleCallbackQuery(p) ==
  /\ dp[p].pc \in {"idle", "done"}
  /\ \A q \in DecProcs : q < p => dp[q].pc \notin {"idle", "done"}
  /\ Cardinality(Drafts) + decided < MaxEvents
  /\ decided' = decided + 1
  /\ \E action \in {"approve", "reject", "edit"}, messageId \in Drafts :
       dp' = [dp EXCEPT ![p] =
                [IdleDec EXCEPT !.front = "telegram", !.action = action,
                                !.mid = messageId,
                                !.start = StartOf(messageId),
                                !.alone = NoneInFlight(messageId),
                                !.pc = CASE action = "approve" -> "sa_get"
                                         [] action = "reject" -> "rj_get"
                                         [] OTHER -> "done"]]
  /\ UNCHANGED << sms_messages, draft_corrections, pendingActions, smsInvoked,
                  applyInvoked, applyOk, rejectProcessed >>
  /\ UNCHANGED DecFrame
  /\ UNCHANGED Rest

\* router.post('/:messageId'): a form post arrives and issues getMessage.
WebPost(p) ==
  /\ dp[p].pc \in {"idle", "done"}
  /\ \A q \in DecProcs : q < p => dp[q].pc \notin {"idle", "done"}
  /\ Cardinality(Drafts) + decided < MaxEvents
  /\ decided' = decided + 1
  /\ \E action \in {"approve", "edit", "reject", "other"}, messageId \in Drafts :
       dp' = [dp EXCEPT ![p] =
                [IdleDec EXCEPT !.front = "web", !.action = action,
                                !.mid = messageId,
                                !.start = StartOf(messageId),
                                !.alone = NoneInFlight(messageId),
                                !.pc = "wb_get"]]
  /\ UNCHANGED << sms_messages, draft_corrections, pendingActions, smsInvoked,
                  applyInvoked, applyOk, rejectProcessed >>
  /\ UNCHANGED DecFrame
  /\ UNCHANGED Rest

\* part_007:306  the already-processed guard of the web form
AlreadyProcessed(dbMessage) ==
  dbMessage.status \in {"sent", "rejected", "approved"}

\* router.post('/:messageId'): getMessage returns; not found and already
\* processed end the request, otherwise the action is dispatched.
WebGet(p) ==
  /\ dp[p].pc = "wb_get"
  /\ LET dbMessage == getMessage(dp[p].mid) IN
     IF dbMessage = NoMessage
       THEN dp' = [dp EXCEPT ![p].pc = "done", ![p].answer = 404]
     ELSE IF AlreadyProcessed(dbMessage)
       THEN dp' = [dp EXCEPT ![p].pc = "done", ![p].answer = 200]
       ELSE
         CASE dp[p].action = "approve" ->
                dp' = [dp EXCEPT ![p].pc = "sa_get"]
           [] dp[p].action = "edit" ->
                \E editedBody \in EditedBodies :
                  LET finalBody == Trim(editedBody) IN
                  IF finalBody = <<>>
                    THEN dp' = [dp EXCEPT ![p].pc = "done",
                                          ![p].answer = 400]
                    ELSE dp' = [dp EXCEPT ![p].pc = "wb_edit",
                                          ![p].body = finalBody,
                                          ![p].isEdit = TRUE,
                                          ![p].dbMessage = dbMessage]
           [] dp[p].action = "reject" ->
                dp' = [dp EXCEPT ![p].pc = "wb_rj_ctx",
                                 ![p].dbMessage = dbMessage]
           [] OTHER ->
                dp' = [dp EXCEPT ![p].pc = "done", ![p].answer = 400]
  /\ UNCHANGED << sms_messages, draft_corrections, pendingActions, smsInvoked,
                  applyInvoked, applyOk, rejectProcessed >>
  /\ UNCHANGED << DecFrame, decided >>
  /\ UNCHANGED Rest

\* edit: getLastInboundContext returns; the correction is stored and
\* sendApprovedSms(messageId, finalBody, null, true) issues getMessage.
WebEdit(p) ==
  /\ dp[p].pc = "wb_edit"
  /\ draft_corrections' =
       storeCorrection("edit",
                       getLastInboundContext(dp[p].dbMessage.conversation_id),
                       dp[p].dbMessage.draft_body, dp[p].body, dp[p].mid)
  /\ dp' = [dp EXCEPT ![p].pc = "sa_get", ![p].dbMessage = NoMessage]
  /\ UNCHANGED << sms_messages, pendingActions, smsInvoked, applyInvoked,
                  applyOk, rejectProcessed >>
  /\ UNCHANGED << DecFrame, decided >>
  /\ UNCHANGED Rest

\* reject: getLastInboundContext returns; rejectMessage is issued.
WebRejectContext(p) ==
  /\ dp[p].pc = "wb_rj_ctx"
  /\ dp' = [dp EXCEPT ![p].pc = "wb_rj",
                      ![p].incomingContext =
                        getLastInboundContext(dp[p].dbMessage.conversation_id)]
  /\ UNCHANGED << sms_messages, draft_corrections, pendingActions, smsInvoked,
                  applyInvoked, applyOk, rejectProcessed >>
  /\ UNCHANGED << DecFrame, decided >>
  /\ UNCHANGED Rest

\* reject: rejectMessage returns; the PendingAction is cleared and the
\* correction stored.
WebReject(p) ==
  /\ dp[p].pc = "wb_rj"
  /\ sms_messages' = rejectMessage(sms_messages, dp[p].mid)
  /\ pendingActions' = clearPendingAction(pendingActions, dp[p].mid)
  /\ draft_corrections' =
       storeCorrection("reject", dp[p].incomingContext,
                       dp[p].dbMessage.draft_body, <<>>, dp[p].mid)
  /\ rejectProcessed' = [rejectProcessed EXCEPT ![dp[p].mid] = TRUE]
  /\ dp' = [dp EXCEPT ![p].pc = "done", ![p].dbMessage = NoMessage,
                      ![p].incomingContext = 0, ![p].wrote = TRUE]
  /\ UNCHANGED << smsInvoked, applyInvoked, applyOk >>
  /\ UNCHANGED << DecFrame, decided >>
  /\ UNCHANGED Rest

\* handleReject: getMessage returns; rejectMessage is issued.
RejectGet(p) ==
  /\ dp[p].pc = "rj_get"
  /\ dp' = [dp EXCEPT ![p].pc = "rj_write",
                      ![p].dbMessage = getMessage(dp[p].mid)]
  /\ UNCHANGED << sms_messages, draft_corrections, pendingActions, smsInvoked,
                  applyInvoked, applyOk, rejectProcessed >>
  /\ UNCHANGED << DecFrame, decided >>
  /\ UNCHANGED Rest

\* handleReject: rejectMessage returns; the PendingAction is cleared, the
\* correction stored when the row was found, the reviewer's message updated.
handleReject(p) ==
  /\ dp[p].pc = "rj_write"
  /\ sms_messages' = rejectMessage(sms_messages, dp[p].mid)
  /\ pendingActions' = clearPendingAction(pendingActions, dp[p].mid)
  /\ draft_corrections' =
       IF dp[p].dbMessage # NoMessage
         THEN storeCorrection("reject",
                              getLastInboundContext(
                                dp[p].dbMessage.conversation_id),
                              dp[p].dbMessage.draft_body, <<>>, dp[p].mid)
         ELSE draft_corrections
  /\ rejectProcessed' = [rejectProcessed EXCEPT ![dp[p].mid] = TRUE]
  /\ dp' = [dp EXCEPT ![p].pc = "done", ![p].dbMessage = NoMessage,
                      ![p].wrote = TRUE]
  /\ UNCHANGED << smsInvoked, applyInvoked, applyOk >>
  /\ UNCHANGED << DecFrame, decided >>
  /\ UNCHANGED Rest


\* answers of the apply endpoint (applyMenuChange): ok and data.status
ApplyResults ==
  { [ok |-> TRUE, status |-> "applied"],
    [ok |-> TRUE, status |-> "failed"],
    [ok |-> FALSE, status |-> ""] }

\* part_007:386  the types executePendingAction applies
IsMenuAction(pending) == pending.type \in MenuTypes

\* variant: the data.status of the answer is not looked at
ApplySucceeded_OkOnly(result) == result.ok

\* part_007:388  the apply call counts as done
ApplySucceeded(result) == result.ok /\ result.status = "applied"

\* variant: the stored draft is sent whatever the reviewer typed
SentText_Draft(isEdit, body, approved) == approved.draft_body

\* part_007:109  const finalBody = isEdit ? body : approved.body
SentText(isEdit, body, approved) == IF isEdit THEN body ELSE approved.body

\* sendApprovedSms: getMessage returns; without the row the call ends,
\* otherwise approveMessage is issued.
SendApprovedGet(p) ==
  /\ dp[p].pc = "sa_get"
  /\ dp' = IF getMessage(dp[p].mid) = NoMessage
             THEN [dp EXCEPT ![p].pc = "done"]
             ELSE [dp EXCEPT ![p].pc = "sa_approve"]
  /\ UNCHANGED << sms_messages, draft_corrections, pendingActions, smsInvoked,
                  applyInvoked, applyOk, rejectProcessed >>
  /\ UNCHANGED << DecFrame, decided >>
  /\ UNCHANGED Rest

\* sendApprovedSms: approveMessage returns; executePendingAction reads the
\* registry, which reads the clock, and either issues applyMenuChange or
\* answers none, in which case sendSMS is issued.
SendApprovedApprove(p) ==
  /\ dp[p].pc = "sa_approve"
  /\ now' \in ClockReadings
  /\ sms_messages' =
       approveMessage(sms_messages, dp[p].mid,
                      IF dp[p].isEdit THEN dp[p].body ELSE <<>>)
  /\ LET messageId == dp[p].mid
         pending == getPendingAction(messageId, now')
         purged == getPendingActionPurge(pendingActions, messageId, now')
         finalBody == SentText(dp[p].isEdit, dp[p].body, sms_messages'[messageId])
     IN
     IF pending = NoEntry
       THEN /\ pendingActions' = purged
            /\ smsInvoked' = [smsInvoked EXCEPT ![messageId] = @ + 1]
            /\ UNCHANGED applyInvoked
            /\ dp' = [dp EXCEPT ![p].pc = "sa_send", ![p].found = "absent",
                                ![p].sendCalled = TRUE,
                                ![p].wrote = TRUE,
                                ![p].finalBody = finalBody]
       ELSE IF IsMenuAction(pending)
         THEN /\ pendingActions' = purged
              /\ applyInvoked' = [applyInvoked EXCEPT ![messageId] = @ + 1]
              /\ UNCHANGED smsInvoked
              /\ dp' = [dp EXCEPT ![p].pc = "sa_apply",
                                  ![p].found = pending.type,
                                  ![p].wrote = TRUE,
                                  ![p].finalBody = finalBody]
         ELSE /\ pendingActions' = clearPendingAction(purged, messageId)
              /\ smsInvoked' = [smsInvoked EXCEPT ![messageId] = @ + 1]
              /\ UNCHANGED applyInvoked
              /\ dp' = [dp EXCEPT ![p].pc = "sa_send",
                                  ![p].found = pending.type,
                                  ![p].sendCalled = TRUE,
                                  ![p].wrote = TRUE,
                                  ![p].finalBody = finalBody]
  /\ UNCHANGED << draft_corrections, applyOk, rejectProcessed >>
  /\ UNCHANGED << sms_conversations, ip, approvalRequests, inboundMirror,
                  hadAction, delivered, decided >>
  /\ UNCHANGED Rest

\* executePendingAction: applyMenuChange returns.  A failure is reported
\* to the reviewer and ends the decision; success clears the entry and
\* sendSMS is issued.
executePendingAction(p) ==
  /\ dp[p].pc = "sa_apply"
  /\ \E result \in ApplyResults :
       LET messageId == dp[p].mid
           applied == result.ok /\ result.status = "applied"
       IN
       /\ applyOk' = IF applied THEN [applyOk EXCEPT ![messageId] = @ + 1]
                     ELSE applyOk
       /\ IF ApplySucceeded(result)
            THEN /\ pendingActions' = clearPendingAction(pendingActions, messageId)
                 /\ smsInvoked' = [smsInvoked EXCEPT ![messageId] = @ + 1]
                 /\ dp' = [dp EXCEPT ![p].pc = "sa_send",
                                     ![p].sendCalled = TRUE,
                                     ![p].applyStatus =
                                        IF applied THEN "applied" ELSE "failed"]
            ELSE /\ UNCHANGED << pendingActions, smsInvoked >>
                 /\ dp' = [dp EXCEPT ![p].pc = "done",
                                     ![p].applyStatus =
                                        IF applied THEN "applied" ELSE "failed"]
  /\ UNCHANGED << sms_messages, draft_corrections, applyInvoked,
                  rejectProcessed >>
  /\ UNCHANGED << DecFrame, decided >>
  /\ UNCHANGED Rest

\* sendApprovedSms: sendSMS returns.  On success the outbound mirror is
\* called and markMessageSent issued; on failure the mirror is called and
\* the reviewer told, the row keeps its status.
SendApprovedSend(p) ==
  /\ dp[p].pc = "sa_send"
  /\ \E success \in BOOLEAN :
       dp' = IF success
               THEN [dp EXCEPT ![p].pc = "sa_mark"]
               ELSE [dp EXCEPT ![p].pc = "done", ![p].sendFailed = TRUE]
  /\ UNCHANGED << sms_messages, draft_corrections, pendingActions, smsInvoked,
                  applyInvoked, applyOk, rejectProcessed >>
  /\ UNCHANGED << DecFrame, decided >>
  /\ UNCHANGED Rest

\* sendApprovedSms: markMessageSent returns; the reviewer is told.
SendApprovedMark(p) ==
  /\ dp[p].pc = "sa_mark"
  /\ sms_messages' = markMessageSent(sms_messages, dp[p].mid, OutSid(dp[p].mid))
  /\ dp' = [dp EXCEPT ![p].pc = "done", ![p].wrote = TRUE]
  /\ UNCHANGED << draft_corrections, pendingActions, smsInvoked, applyInvoked,
                  applyOk, rejectProcessed >>
  /\ UNCHANGED << DecFrame, decided >>
  /\ UNCHANGED Rest

sendApprovedSms(p) ==
  \/ SendApprovedGet(p)
  \/ SendApprovedApprove(p)
  \/ executePendingAction(p)
  \/ SendApprovedSend(p)
  \/ SendApprovedMark(p)

Decision(p) ==
  \/ handleCallbackQuery(p)
  \/ WebPost(p)
  \/ WebGet(p)
  \/ WebEdit(p)
  \/ WebRejectContext(p)
  \/ WebReject(p)
  \/ RejectGet(p)
  \/ handleReject(p)
  \/ sendApprovedSms(p)

\* A whole run of processIncomingMessage with no other handler in between
\* and within one reading of the clock, for a message the webhook delivers
\* (no sendApproval option, approval channel configured) and that is not a
\* duplicate: conversation, inbound row, draft, PendingAction, approval
\* request or auto-approval.
DraftArrives ==
  /\ Cardinality(Drafts) + decided < MaxEvents
  /\ \E sid \in {NoSid}, from \in Phones, name \in {""},
        actionResult \in EvalResults, sendApproval \in {TRUE},
        telegramResult \in BOOLEAN, at \in ClockReadings :
       LET convs == getOrCreateConversation(sms_conversations,
                                            FindConversation(from), from, name,
                                            at)
           convId == IF FindConversation(from) # NoConv
                       THEN FindConversation(from).id ELSE Len(convs)
           stored == storeIncomingMessage(sms_messages, convId, sid)
           drafted == storeDraftReply(stored, convId, DraftText)
           id == Len(drafted)
       IN
       /\ ~(sid # NoSid /\ checkMessageExists(sid))
       /\ now' = at
       /\ sms_conversations' = convs
       /\ inboundMirror' = inboundMirror + 1
       /\ pendingActions' =
            IF SeedsAction(actionResult)
              THEN setPendingAction(pendingActions, id, actionResult.action, at)
              ELSE pendingActions
       /\ hadAction' = [hadAction EXCEPT ![id] = IF SeedsAction(actionResult)
                                                  THEN actionResult.action
                                                  ELSE ""]
       /\ sms_messages' =
            IF sendApproval /\ ~telegramResult
              THEN approveMessage(drafted, id, DraftText)
              ELSE drafted
       /\ approvalRequests' =
            IF sendApproval /\ telegramResult
              THEN [approvalRequests EXCEPT ![id] = @ + 1]
              ELSE approvalRequests
  /\ UNCHANGED << draft_corrections, ip, dp, smsInvoked, applyInvoked,
                  applyOk, rejectProcessed, delivered, decided >>
  /\ UNCHANGED Rest

\* -------------------------------------- services/reminderScheduler.js
\* createReminder: a row is inserted with status pending and retry_count
\* 0.  Reminders are created in the order of their ids and are taken to be
\* due from then on.
createReminder(id) ==
  /\ reminders[id].status = ""
  /\ \A j \in ReminderIds : j < id => reminders[j].status # ""
  /\ reminders' = [reminders EXCEPT ![id] = [status |-> "pending",
                                             retry_count |-> 0]]
  /\ UNCHANGED << rr, vapiCalls, reminderNotices, checks >>
  /\ UNCHANGED << Core, LearnerVars, gen >>

\* the rows ids holds, in ascending order, as the query returns them
RECURSIVE SnapshotOf(_)
SnapshotOf(ids) ==
  IF ids = {} THEN <<>>
  ELSE LET i == CHOOSE x \in ids : \A y \in ids : x <= y
       IN << [id |-> i, retry_count |-> reminders[i].retry_count] >>
            \o SnapshotOf(ids \ {i})

\* reminderScheduler.js:59-64  the due reminders: status pending
DueReminders ==
  SnapshotOf({ i \in ReminderIds : reminders[i].status = "pending" })

\* the runs whose claim of reminder id is in flight
Claiming(id) ==
  { q \in RunProcs : rr[q].pc = "claim" /\ Head(rr[q].queue).id = id }

\* checkReminders: the interval fires and the query returns.  A query
\* error or an empty result ends the run; otherwise processReminder of the
\* first row issues its conditional update.
checkReminders(r) ==
  /\ rr[r].pc = "idle"
  /\ \A q \in RunProcs : q < r => rr[q].pc # "idle"
  /\ checks < MaxChecks
  /\ checks' = checks + 1
  /\ \E queryError \in BOOLEAN :
       rr' = IF queryError \/ DueReminders = <<>>
               THEN rr
               ELSE [rr EXCEPT ![r] = [IdleRun EXCEPT !.pc = "claim",
                                                      !.queue = DueReminders]]
  /\ UNCHANGED << reminders, vapiCalls, reminderNotices >>
  /\ UNCHANGED << Core, LearnerVars, gen >>

\* the run after processReminder returned: the loop takes the next row of
\* dueReminders, or the run ends
NextReminder(run) ==
  IF Len(run.queue) > 1
    THEN [IdleRun EXCEPT !.pc = "claim", !.queue = Tail(run.queue)]
    ELSE IdleRun

\* variant: the update claims the row whatever its status
ClaimApplies_Always(row) == row.status # ""

\* reminderScheduler.js:94-100  .eq('id', id).eq('status', 'pending'):
\* the update applies to a row that is still pending
ClaimApplies(row) == row.status = "pending"

\* processReminder: the conditional update returns.  With a row updated
\* the call to the voice API is issued; with none the reminder is skipped.
Claim(r) ==
  /\ rr[r].pc = "claim"
  /\ LET id == Head(rr[r].queue).id IN
     IF ClaimApplies(reminders[id])
       THEN /\ reminders' = [reminders EXCEPT ![id].status = "calling"]
            /\ vapiCalls' = [vapiCalls EXCEPT ![id] = @ + 1]
            /\ rr' = [q \in RunProcs |->
                        IF q = r
                          THEN [rr[q] EXCEPT !.pc = "call", !.claimed = TRUE]
                        ELSE IF q \in Claiming(id)
                          THEN [rr[q] EXCEPT !.lost = TRUE]
                        ELSE rr[q]]
       ELSE /\ rr' = [rr EXCEPT ![r] = NextReminder(rr[r])]
            /\ UNCHANGED << reminders, vapiCalls >>
  /\ UNCHANGED << reminderNotices, checks >>
  /\ UNCHANGED << Core, LearnerVars, gen >>

\* processReminder: the voice API answers (a call id, or a refusal, or the
\* request throws); the update that follows is issued.
CallReturns(r) ==
  /\ rr[r].pc = "call"
  /\ \E outcome \in {"placed", "failed"} :
       rr' = [rr EXCEPT ![r].pc = "settle", ![r].outcome = outcome]
  /\ UNCHANGED << reminders, vapiCalls, reminderNotices, checks >>
  /\ UNCHANGED << Core, LearnerVars, gen >>

\* handleReminderFailure: the row after the update, given the row the run
\* holds from its query
handleReminderFailure(tbl, reminder) ==
  LET newRetryCount == reminder.retry_count + 1 IN
  [tbl EXCEPT ![reminder.id] =
     [status |-> IF newRetryCount >= MAX_RETRIES THEN "failed" ELSE "pending",
      retry_count |-> newRetryCount]]

\* processReminder: the update returns (completed after a call placed,
\* handleReminderFailure's otherwise) and the reviewer is told of a call
\* placed or of the last failure.
Settle(r) ==
  /\ rr[r].pc = "settle"
  /\ LET reminder == Head(rr[r].queue)
         id == reminder.id
     IN
     /\ reminders' =
          IF rr[r].outcome = "placed"
            THEN [reminders EXCEPT ![id].status = "completed"]
            ELSE handleReminderFailure(reminders, reminder)
     /\ reminderNotices' =
          IF rr[r].outcome = "placed" \/ reminders'[id].status = "failed"
            THEN [reminderNotices EXCEPT ![id] = @ + 1]
            ELSE reminderNotices
  /\ rr' = [rr EXCEPT ![r] = NextReminder(rr[r])]
  /\ UNCHANGED << vapiCalls, checks >>
  /\ UNCHANGED << Core, LearnerVars, gen >>

\* cancelReminder(id): .eq('id', id).eq('status', 'pending'), the update
\* applies to a row that is still pending and to no other
cancelReminder(id) ==
  /\ reminders[id].status # ""
  /\ reminders' = IF reminders[id].status = "pending"
                    THEN [reminders EXCEPT ![id].status = "cancelled"]
                    ELSE reminders
  /\ UNCHANGED << rr, vapiCalls, reminderNotices, checks >>
  /\ UNCHANGED << Core, LearnerVars, gen >>

processReminder(r) ==
  \/ Claim(r)
  \/ CallReturns(r)
  \/ Settle(r)

\* ---------------------------------------------- services/corrections.js
\* variant: the callers await storeCorrection inside their try block
AfterStoreCorrection_Awaited(inserted, next) == IF inserted THEN next ELSE "done"

\* part_007:340  .catch(err => logger.warn(...)): storeCorrection is not
\* awaited and its rejection is logged; the handler goes on to next
AfterStoreCorrection(inserted, next) == next

\* storeCorrection's insert returns an error: storeCorrection throws, no
\* row is stored and no rule extraction is started.  The step of the
\* handler is the one of WebEdit, WebReject or handleReject otherwise.
CorrectionInsertFails(p) ==
  /\ dp[p].pc \in {"wb_edit", "wb_rj", "rj_write"}
  /\ dp[p].dbMessage # NoMessage
  /\ IF dp[p].pc = "wb_edit"
       THEN /\ dp' = [dp EXCEPT ![p].pc = AfterStoreCorrection(FALSE, "sa_get"),
                                ![p].dbMessage = NoMessage]
            /\ UNCHANGED << sms_messages, pendingActions, rejectProcessed >>
       ELSE /\ sms_messages' = rejectMessage(sms_messages, dp[p].mid)
            /\ pendingActions' = clearPendingAction(pendingActions, dp[p].mid)
            /\ rejectProcessed' = [rejectProcessed EXCEPT ![dp[p].mid] = TRUE]
            /\ dp' = [dp EXCEPT ![p].pc = AfterStoreCorrection(FALSE, "done"),
                                ![p].dbMessage = NoMessage,
                                ![p].incomingContext = 0,
                                ![p].wrote = TRUE]
  /\ UNCHANGED << draft_corrections, smsInvoked, applyInvoked, applyOk >>
  /\ UNCHANGED << DecFrame, decided >>
  /\ UNCHANGED Rest

\* outcomes of the fire-and-forget task of a stored correction: the model
\* call fails, its answer holds no JSON or does not parse, the update of
\* the rule fails, the embedding or the memory store fails, the update of
\* the promotion flag fails, or the rule is promoted
ExtractionOutcomes ==
  { "model_failed", "unparseable", "update_failed", "not_stored",
    "flag_failed", "promoted" }

\* the learner's columns of a row after its task ended with outcome
RuleAfter(outcome) ==
  [correction_rule |-> outcome \in {"not_stored", "flag_failed", "promoted"},
   promoted_to_mem0 |-> outcome = "promoted",
   extraction |-> "done"]

\* the learner's columns of row k: a row nothing was written to has the
\* columns of its insert
RuleOf(k) == IF k \in DOMAIN ruleColumns THEN ruleColumns[k] ELSE NoRule

\* .update({...}).eq('id', k) of the learner's columns of row k
SetRule(k, columns) ==
  [j \in DOMAIN ruleColumns \cup {k} |->
     IF j = k THEN columns ELSE ruleColumns[j]]

\* extractCorrectionRule(data.id, ...) of a stored row runs to its end:
\* the model call, the update of correction_rule and
\* promoteRuleToPgvector.  Every failure is caught and logged inside.
extractCorrectionRule(k) ==
  /\ k \in DOMAIN draft_corrections
  /\ RuleOf(k).extraction = "todo"
  /\ \E outcome \in ExtractionOutcomes :
       ruleColumns' = SetRule(k, RuleAfter(outcome))
  /\ UNCHANGED << Core, ReminderVars, rj, gen >>

\* corrections.js:208-214  rows with a rule and promoted_to_mem0 false,
\* oldest first, at most RECONCILE_LIMIT of them
RECURSIVE FirstUnpromoted(_, _)
FirstUnpromoted(k, n) ==
  IF k > Len(draft_corrections) \/ n = 0 THEN <<>>
  ELSE IF RuleOf(k).correction_rule /\ ~RuleOf(k).promoted_to_mem0
    THEN << k >> \o FirstUnpromoted(k + 1, n - 1)
  ELSE FirstUnpromoted(k + 1, n)

\* part_009:61-64  the timer set by the app.listen callback fires and the
\* query of reconcileUnpromotedRules returns: an error or an empty result
\* ends the run, otherwise promoteRuleToPgvector of the first row is issued.
reconcileUnpromotedRules ==
  /\ rj.pc = "timer"
  /\ \E queryError \in BOOLEAN :
       LET data == FirstUnpromoted(1, RECONCILE_LIMIT) IN
       rj' = IF queryError \/ data = <<>>
               THEN [IdleJob EXCEPT !.pc = "over"]
               ELSE [IdleJob EXCEPT !.pc = "promote", !.batch = data]
  /\ UNCHANGED << Core, ReminderVars, ruleColumns, gen >>

\* promoteRuleToPgvector of the reconciliation run returns: the flag is
\* set when the memory was stored and the update went through; the loop
\* takes the next row.
promoteRuleToPgvector ==
  /\ rj.pc = "promote"
  /\ \E outcome \in {"not_stored", "flag_failed", "promoted"} :
       ruleColumns' = SetRule(Head(rj.batch), RuleAfter(outcome))
  /\ rj' = IF Len(rj.batch) > 1
             THEN [rj EXCEPT !.batch = Tail(rj.batch), !.retried = @ + 1]
             ELSE [IdleJob EXCEPT !.pc = "over"]
  /\ UNCHANGED << Core, ReminderVars, gen >>

\* the process is started again (deploy, crash): app.listen sets the timer
\* of the reconciliation anew
Restart ==
  /\ rj.pc = "over"
  /\ rj' = IdleJob
  /\ UNCHANGED << Core, ReminderVars, ruleColumns, gen >>

\* ------------------------- smsProcessor.js, lines 111-145, and claude.js
\* the four lookups of the Promise.all and the ways each one can end: with
\* its data, with an error result of the service behind it, or with an
\* exception (a timeout of the request is one)
Lookups == {"client", "business", "calendar", "history"}
LookupOutcomes == {"ok", "error", "throws"}

\* part_005:212  .limit(limit) with limit = 10
HISTORY_LIMIT == 10

\* searchClientContext, getBusinessContext, getCalendarContext: the value
\* the lookup resolves to; each catches what is thrown inside it and
\* answers null, or the default business context
ValueOf(lookup, outcome) ==
  CASE lookup = "client" -> IF outcome = "ok" THEN "notes" ELSE "null"
    [] lookup = "business" -> IF outcome = "ok" THEN "facts" ELSE "default"
    [] lookup = "calendar" -> IF outcome = "ok" THEN "events" ELSE "null"

\* getConversationHistory: the number of rows it resolves to, the rows of
\* the conversation with status received or sent; [] on an error result
getConversationHistory(conversationId, outcome) ==
  IF outcome = "error" THEN 0
  ELSE LET n == Cardinality({ i \in DOMAIN sms_messages :
                                /\ sms_messages[i].conversation_id = conversationId
                                /\ sms_messages[i].status \in {"received", "sent"} })
       IN IF n > HISTORY_LIMIT THEN HISTORY_LIMIT ELSE n

\* the inbound rows of a conversation
InboundOf(conversationId) ==
  { i \in DOMAIN sms_messages :
      /\ sms_messages[i].conversation_id = conversationId
      /\ sms_messages[i].direction = "inbound" }

\* processIncomingMessage up to the lookups, with no other handler in
\* between: the conversation is found or created, the inbound row is
\* stored and mirrored, and the four lookups are issued.
InboundStored ==
  /\ gen.pc \in {"idle", "done"}
  /\ \E from \in Phones :
       LET existing == FindConversation(from)
           convs == getOrCreateConversation(sms_conversations, existing, from,
                                            "", now)
           convId == IF existing # NoConv THEN existing.id ELSE Len(convs)
       IN
       /\ Cardinality(InboundOf(convId)) < MaxInbound
       /\ sms_conversations' = convs
       /\ sms_messages' = storeIncomingMessage(sms_messages, convId, NoSid)
       /\ inboundMirror' = inboundMirror + 1
       /\ gen' = [IdleGen EXCEPT !.pc = "lookups", !.convId = convId,
                                 !.first = (InboundOf(convId) = {})]
  /\ UNCHANGED << now, draft_corrections, pendingActions, ip, dp, smsInvoked,
                  applyInvoked, applyOk, approvalRequests, hadAction,
                  rejectProcessed, delivered, decided >>
  /\ UNCHANGED << ReminderVars, LearnerVars >>

\* the Promise.all settles.  getConversationHistory catches nothing: when
\* its query throws the Promise.all rejects and the catch of
\* processIncomingMessage ends the call with {success: false}.
GatherContext ==
  /\ gen.pc = "lookups"
  /\ \E o \in [Lookups -> LookupOutcomes] :
       gen' = IF o["history"] = "throws"
                THEN [gen EXCEPT !.pc = "done", !.outcome = o,
                                 !.result = "failed"]
                ELSE [gen EXCEPT
                        !.pc = "generate", !.outcome = o,
                        !.clientContext = ValueOf("client", o["client"]),
                        !.businessContext = ValueOf("business", o["business"]),
                        !.calendarContext = ValueOf("calendar", o["calendar"]),
                        !.history = getConversationHistory(gen.convId,
                                                           o["history"])]
  /\ UNCHANGED << Core, ReminderVars, LearnerVars >>

\* part_002:344  the history holds the message just stored
isFirstMessage(history) == history <= 1

\* the ways the model call of generateFollowUpReply can end
ModelOutcomes == {"text", "malformed", "error", "timeout"}

\* variant: a failure of the model call is passed on to the caller
generateFollowUpReply_Rethrows(modelCall) ==
  IF modelCall = "text" THEN "model" ELSE ""

\* generateFollowUpReply: the text of the model, or generateFallbackReply's
\* when the call throws or its answer has no text
generateFollowUpReply(modelCall) ==
  IF modelCall = "text" THEN "model" ELSE "fallback"

\* the answers of evaluateMenuChange by status: ready with its action,
\* no_action, an event that could not be told (the action the message
\* asks for is named) or found; a failure or a timeout of the call gives
\* ok false
EvalAnswers ==
  { [ok |-> TRUE, status |-> "ready", action |-> "update_menu"],
    [ok |-> TRUE, status |-> "no_action", action |-> ""],
    [ok |-> TRUE, status |-> "ambiguous", action |-> "update_menu"],
    [ok |-> TRUE, status |-> "not_found", action |-> ""],
    [ok |-> FALSE, status |-> "", action |-> ""] }

\* evaluateMenuChange and getRelevantCorrections have returned;
\* generateDraftReply picks its mode and returns the draft; the insert of
\* the draft is issued.
generateDraftReply ==
  /\ gen.pc = "generate"
  /\ \E actionResult \in EvalAnswers :
       IF isFirstMessage(gen.history)
         THEN gen' = [gen EXCEPT !.pc = "store", !.mode = "first",
                                 !.actionResult = actionResult,
                                 !.draft = "template"]
         ELSE \E modelCall \in ModelOutcomes :
                gen' = [gen EXCEPT !.pc = "store", !.mode = "follow_up",
                                   !.actionResult = actionResult,
                                   !.modelCall = modelCall,
                                   !.draft = generateFollowUpReply(modelCall)]
  /\ UNCHANGED << Core, ReminderVars, LearnerVars >>

\* storeDraftReply returns the row it inserted; the PendingAction is
\* registered when the evaluation gave one.
DraftStored ==
  /\ gen.pc = "store"
  /\ sms_messages' = storeDraftReply(sms_messages, gen.convId, DraftText)
  /\ gen' = [gen EXCEPT !.pc = "done", !.result = "processed",
                        !.draftMessage = sms_messages'[Len(sms_messages')]]
  /\ LET id == Len(sms_messages) + 1
         seeds == SeedsAction(gen.actionResult)
     IN /\ pendingActions' =
             IF seeds
               THEN setPendingAction(pendingActions, id,
                                     gen.actionResult.action, now)
               ELSE pendingActions
        /\ hadAction' =
             [hadAction EXCEPT ![id] = IF seeds THEN gen.actionResult.action
                                       ELSE ""]
  /\ UNCHANGED << now, sms_conversations, draft_corrections,
                  ip, dp, smsInvoked, applyInvoked, applyOk, approvalRequests,
                  inboundMirror, rejectProcessed, delivered,
                  decided >>
  /\ UNCHANGED << ReminderVars, LearnerVars >>

\* the reviewer decides on a draft that is pending: it is approved and
\* sent, or rejected
DraftSettled ==
  /\ \E i \in Drafts, sent \in BOOLEAN :
       /\ sms_messages[i].status = "pending_approval"
       /\ sms_messages' =
            IF sent
              THEN markMessageSent(approveMessage(sms_messages, i, DraftText),
                                   i, OutSid(i))
              ELSE rejectMessage(sms_messages, i)
       /\ pendingActions' = clearPendingAction(pendingActions, i)
  /\ UNCHANGED << now, sms_conversations, draft_corrections,
                  ip, dp, smsInvoked, applyInvoked, applyOk, approvalRequests,
                  inboundMirror, hadAction, rejectProcessed, delivered,
                  decided >>
  /\ UNCHANGED Rest

\* ------------------------------------- claude.js, the first-contact reply
\* A message body is the set of the phrases it is made of.  Patterns gives,
\* for each phrase, the regular expressions of the code that match it:
\* name (extractClientName), french (detectLanguage), workshop and
\* bar_service (detectInquiryType), hasDate, hasGuestCount and hasLocation
\* (getFirstMessageTemplate).
Vocabulary ==
  { "hi, this is Sarah", "need a quote", "for June 15", "for 80 people",
    "pour 50 personnes", "at the hotel", "a wedding", "a workshop",
    "bonjour" }

Patterns(phrase) ==
  CASE phrase = "hi, this is Sarah" -> {"name"}
    [] phrase = "need a quote" -> {}
    [] phrase = "for June 15" -> {"hasDate"}
    [] phrase = "for 80 people" -> {"hasGuestCount"}
    [] phrase = "pour 50 personnes" -> {"french", "hasGuestCount"}
    [] phrase = "at the hotel" -> {"hasLocation"}
    [] phrase = "a wedding" -> {"bar_service"}
    [] phrase = "a workshop" -> {"workshop"}
    [] phrase = "bonjour" -> {"french"}

\* pattern.test(text)
Test(pattern, text) == \E phrase \in text : pattern \in Patterns(phrase)

\* part_008:894-910  the name after "this is", or null
extractClientName(body) == IF Test("name", body) THEN "Sarah" ELSE ""

detectLanguage(text) ==
  IF text = {} THEN "en" ELSE IF Test("french", text) THEN "fr" ELSE "en"

detectInquiryType(text) ==
  IF text = {} THEN "unknown"
  ELSE IF Test("workshop", text) THEN "workshop"
  ELSE IF Test("bar_service", text) THEN "bar_service"
  ELSE "unknown"

\* part_002:480-497  the template of an unknown inquiry type is a fixed text
UnknownQuestions(hasDate, hasGuestCount, hasLocation) ==
  << "date_and_group_size", "location" >>

\* getFirstMessageTemplate: the greeting and the questions of the text it
\* returns, in their order; lang is the language of the text
getFirstMessageTemplate(type, lang, name, incomingMessage) ==
  LET hasDate == Test("hasDate", incomingMessage)
      hasGuestCount == Test("hasGuestCount", incomingMessage)
      hasLocation == Test("hasLocation", incomingMessage)
      greeting == IF name # "" THEN name
                  ELSE IF lang = "fr" THEN "Bonjour!" ELSE "Hey there,"
      questions ==
        CASE type = "workshop" ->
               (IF hasGuestCount THEN <<>> ELSE << "group_size" >>)
                 \o (IF hasDate THEN <<>> ELSE << "date" >>)
                 \o (IF hasLocation THEN <<>> ELSE << "address" >>)
          [] type = "bar_service" ->
               (IF ~hasDate \/ ~hasLocation
                  THEN << "date_and_location" >> ELSE <<>>)
                 \o << "rental", "glassware", "alcohol" >>
          [] OTHER -> UnknownQuestions(hasDate, hasGuestCount, hasLocation)
  IN [greeting |-> greeting, lang |-> lang, type |-> type,
      questions |-> questions]

\* generateFirstMessageReply(incomingMessage, clientName) with the name
\* processIncomingMessage extracted from the body
generateFirstMessageReply ==
  /\ gen.pc = "idle"
  /\ gen' = [gen EXCEPT
               !.pc = "done", !.mode = "first", !.draft = "template",
               !.reply = getFirstMessageTemplate(
                           detectInquiryType(gen.incomingMessage),
                           detectLanguage(gen.incomingMessage),
                           extractClientName(gen.incomingMessage),
                           gen.incomingMessage)]
  /\ UNCHANGED << Core, ReminderVars, LearnerVars >>

\* ------------------------------------------------------- specifications
\* intake: deliveries interleave segment by segment; the intake reads the
\* clock only to stamp the rows it writes
NextIntake ==
  \/ \E p \in InProcs : processIncomingMessage(p)

SpecIntake == Init /\ [][NextIntake]_vars

\* intake with a store whose dedup lookup can fail
NextIntakeFaults ==
  \/ \E p \in InProcs : processIncomingMessage(p)
  \/ \E p \in InProcs : DedupLookupFails(p)

SpecIntakeFaults == Init /\ [][NextIntakeFaults]_vars

\* approval: drafts arrive, decision events interleave segment by segment,
\* time passes between the readings of the clock
NextApproval ==
  \/ DraftArrives
  \/ \E p \in DecProcs : Decision(p)

SpecApproval == Init /\ [][NextApproval]_vars

\* the reminder scheduler: runs of checkReminders overlap
NextReminders ==
  \/ \E id \in ReminderIds : createReminder(id)
  \/ \E id \in ReminderIds : cancelReminder(id)
  \/ \E r \in RunProcs : checkReminders(r)
  \/ \E r \in RunProcs : processReminder(r)

SpecReminders == Init /\ [][NextReminders]_vars

\* approval, one decision at a time, with a corrections table whose insert
\* can fail and with the fire-and-forget rule extraction of the stored
\* corrections going on beside the decisions
NextApprovalFaults ==
  \/ DraftArrives
  \/ \E p \in {1} : Decision(p)
  \/ \E p \in {1} : CorrectionInsertFails(p)
  \/ \E k \in CorrIds : extractCorrectionRule(k)

SpecApprovalFaults == Init /\ [][NextApprovalFaults]_vars

\* context gathering and draft generation, one message at a time
NextDraft ==
  \/ InboundStored
  \/ GatherContext
  \/ generateDraftReply
  \/ DraftStored
  \/ DraftSettled

SpecDraft == Init /\ [][NextDraft]_vars

\* intake with a store whose insert of the inbound row can fail, one
\* delivery after the other
NextStoreFaults ==
  \/ \E p \in {1} : processIncomingMessage(p)
  \/ \E p \in {1} : StoreInboundFails(p)

SpecStoreFaults == Init /\ [][NextStoreFaults]_vars

\* the table the service finds when it starts: n rows stored by earlier
\* decisions, the rule of each extracted and its promotion failed
StoredCorrections(n) ==
  [k \in 1 .. n |->
     [action |-> "reject", incoming_context |-> 0,
      original_draft |-> DraftText,
      corrected_text |-> <<>>, source_record_id |-> 0]]

InitReconcile ==
  /\ now = 0
  /\ sms_conversations = <<>>
  /\ sms_messages = <<>>
  /\ \E n \in 0 .. MaxCorrections :
       /\ draft_corrections = StoredCorrections(n)
       /\ ruleColumns = [k \in 1 .. n |-> RuleAfter("not_stored")]
  /\ pendingActions = [i \in RowIds |-> NoEntry]
  /\ ip = [p \in InProcs |-> IdleIn]
  /\ dp = [p \in DecProcs |-> IdleDec]
  /\ smsInvoked = [i \in RowIds |-> 0]
  /\ applyInvoked = [i \in RowIds |-> 0]
  /\ applyOk = [i \in RowIds |-> 0]
  /\ approvalRequests = [i \in RowIds |-> 0]
  /\ inboundMirror = 0
  /\ hadAction = [i \in RowIds |-> ""]
  /\ rejectProcessed = [i \in RowIds |-> FALSE]
  /\ delivered = 0
  /\ decided = 0
  /\ ReminderInit
  /\ rj = IdleJob
  /\ gen = IdleGen

\* the reconciliation of the rules left unpromoted, over the restarts of
\* the service
NextReconcile ==
  \/ reconcileUnpromotedRules
  \/ promoteRuleToPgvector
  \/ Restart

\* the timer of app.listen fires and an awaited call returns; nothing
\* makes the service start again
SpecReconcile ==
  /\ InitReconcile
  /\ [][NextReconcile]_vars
  /\ WF_vars(reconcileUnpromotedRules)
  /\ WF_vars(promoteRuleToPgvector)

\* a first message with any body of the vocabulary is in hand
InitTemplate ==
  /\ now = 0
  /\ sms_conversations = <<>>
  /\ sms_messages = <<>>
  /\ draft_corrections = <<>>
  /\ pendingActions = [i \in RowIds |-> NoEntry]
  /\ ip = [p \in InProcs |-> IdleIn]
  /\ dp = [p \in DecProcs |-> IdleDec]
  /\ smsInvoked = [i \in RowIds |-> 0]
  /\ applyInvoked = [i \in RowIds |-> 0]
  /\ applyOk = [i \in RowIds |-> 0]
  /\ approvalRequests = [i \in RowIds |-> 0]
  /\ inboundMirror = 0
  /\ hadAction = [i \in RowIds |-> ""]
  /\ rejectProcessed = [i \in RowIds |-> FALSE]
  /\ delivered = 0
  /\ decided = 0
  /\ ReminderInit
  /\ LearnerInit
  /\ \E body \in SUBSET Vocabulary :
       gen = [IdleGen EXCEPT !.incomingMessage = body]

NextTemplate ==
  \/ generateFirstMessageReply

SpecTemplate == InitTemplate /\ [][NextTemplate]_vars

\* ----------------------------------------------------------- properties
\* the statuses a draft row has gone through are read off sms_messages
StatusOf(id) == sms_messages[id].status

\* C1 (as claimed): a decision event that arrives after an earlier decision
\* has been handled and has taken the message out of pending_approval
\* issues no sendSMS and writes no status.
C1_DecidedIsFinal ==
  \A p \in DecProcs :
    dp[p].start = "decided" /\ dp[p].alone =>
      ~dp[p].sendCalled /\ ~dp[p].wrote

\* the status changes the approval state machine allows
AllowedTransitions ==
  { <<"pending_approval", "approved">>, <<"pending_approval", "rejected">>,
    <<"approved", "sent">>, <<"approved", "failed">> }

\* C2 (as claimed): every status change of an outbound message is one of
\* pending_approval->approved, pending_approval->rejected, approved->sent,
\* approved->failed.
C2_MonotonicStatus ==
  [][ \A i \in DOMAIN sms_messages :
        sms_messages'[i].status # sms_messages[i].status =>
          << sms_messages[i].status, sms_messages'[i].status >>
            \in AllowedTransitions ]_vars

\* C3 (as claimed): a decision that finds a registered, unexpired
\* PendingAction issues sendSMS only after its apply call returned applied.
C3_ApplyGatesSend ==
  \A p \in DecProcs :
    dp[p].found \notin {"", "absent"} /\ dp[p].sendCalled =>
      dp[p].applyStatus = "applied"

\* C3 (amended): a decision that finds a registered, unexpired PendingAction
\* of type update_menu, add_menu or remove_menu issues sendSMS only after
\* its apply call returned ok with status applied; when the apply call
\* fails or returns another status the decision issues no sendSMS and does
\* not mark the message sent; an entry of another type is cleared with no
\* apply call and sendSMS is issued.
C3_MenuApplyGatesSend ==
  \A p \in DecProcs :
    /\ dp[p].found \in MenuTypes /\ dp[p].sendCalled =>
         dp[p].applyStatus = "applied"
    /\ dp[p].applyStatus = "failed" =>
         ~dp[p].sendCalled /\ dp[p].pc = "done"
    /\ dp[p].found \notin MenuTypes \cup {"", "absent"} =>
         dp[p].sendCalled /\ dp[p].applyStatus = ""

\* C3 witness: a decision found a menu action, its apply call failed, and
\* the decision ended with no SMS issued for the message.
C3_Witness ==
  \E p \in DecProcs :
    /\ dp[p].found \in MenuTypes
    /\ dp[p].applyStatus = "failed"
    /\ dp[p].pc = "done"
    /\ smsInvoked[dp[p].mid] = 0
    /\ StatusOf(dp[p].mid) = "approved"

\* C4 (as claimed): for a message whose draft was created together with a
\* menu PendingAction, sendSMS is issued only after an apply call for it
\* has succeeded, whenever the approval arrives.
C4_SendOnlyAfterApply ==
  \A i \in RowIds :
    hadAction[i] \in MenuTypes /\ smsInvoked[i] > 0 => applyOk[i] > 0

\* C4 (amended): for a message whose draft was created together with a
\* PendingAction, sendSMS is issued only after an apply call for it has
\* succeeded or after the entry has left the registry (expired and
\* deleted on read, cleared by a reject, or of a type that is not applied).
C4_SendAfterApplyOrEntryGone ==
  \A i \in RowIds :
    hadAction[i] # "" /\ smsInvoked[i] > 0 /\ applyOk[i] = 0 =>
      pendingActions[i] = NoEntry

\* C4 witness: an approval that arrived after the TTL found the entry of a
\* menu action expired and issued sendSMS with no apply call.
C4_Witness ==
  \E p \in DecProcs :
    /\ dp[p].found = "absent"
    /\ dp[p].sendCalled
    /\ hadAction[dp[p].mid] \in MenuTypes
    /\ applyInvoked[dp[p].mid] = 0
    /\ ~rejectProcessed[dp[p].mid]
    /\ now > ACTION_TTL_MS

\* C5 (as claimed): the PendingAction of a message is applied successfully
\* at most once.
C5_AppliedAtMostOnce == \A i \in RowIds : applyOk[i] <= 1

\* C6 (as claimed): of two decision events that both arrived while the
\* message was pending_approval, at most one issues sendSMS, and none does
\* when the other one rejected the message.
C6_OneDecisionWins ==
  \A p, q \in DecProcs :
    p # q /\ dp[p].mid = dp[q].mid /\
    dp[p].start = "pending" /\ dp[q].start = "pending" /\ dp[p].sendCalled =>
      /\ ~dp[q].sendCalled
      /\ ~(dp[q].action = "reject" /\ dp[q].wrote)

\* C7 (as claimed): once a reject decision for a message has been
\* processed, its status is rejected, the registry holds no entry for it
\* and no apply call is issued for it.
C7_RejectIsFinal ==
  [][ \A i \in DOMAIN sms_messages :
        rejectProcessed[i] =>
          /\ sms_messages'[i].status = "rejected"
          /\ pendingActions'[i] = NoEntry
          /\ applyInvoked'[i] = applyInvoked[i] ]_vars

\* inbound rows stored with provider id sid
InboundRows(sid) ==
  { i \in DOMAIN sms_messages :
      sms_messages[i].direction = "inbound" /\ sms_messages[i].twilio_sid = sid }

\* C8: a processIncomingMessage call that arrives after an inbound row
\* with its provider id has been stored ends as a duplicate, and none of
\* its steps adds a message row, a PendingAction or an approval request.
C8_RepeatIsDuplicate ==
  /\ [](\A p \in InProcs :
          ip[p].late /\ ip[p].pc = "done" =>
            ip[p].result = "duplicate" /\ ip[p].draftId = 0)
  /\ [][ \A p \in InProcs :
           ip[p].late /\ ip'[p] # ip[p] =>
             /\ sms_messages' = sms_messages
             /\ pendingActions' = pendingActions
             /\ approvalRequests' = approvalRequests
             /\ hadAction' = hadAction ]_vars

\* C8 witness: a call that arrived after its provider id was stored has
\* returned duplicate.
C8_Witness ==
  \E p \in InProcs :
    /\ ip[p].late
    /\ ip[p].pc = "done"
    /\ ip[p].result = "duplicate"
    /\ InboundRows(ip[p].sid) # {}

\* C9 (as claimed): at most one inbound row is stored per provider id and
\* at most one delivery of a provider id gets a draft.
C9_OneRowPerSid ==
  \A sid \in Sids \ {NoSid} :
    /\ Cardinality(InboundRows(sid)) <= 1
    /\ Cardinality({ p \in InProcs : ip[p].sid = sid /\ ip[p].draftId # 0 }) <= 1

\* C10 (as claimed): a call recognised as a duplicate has written nothing,
\* the conversation record included.
C10_DuplicateWritesNothing ==
  \A p \in InProcs :
    ip[p].result = "duplicate" => ip[p].convWrites = 0 /\ ip[p].draftId = 0

\* C11: a call whose message carries no provider id never reaches the
\* dedup lookup and ends processed, with a draft, whatever is stored.
C11_NoSidAlwaysProcessed ==
  /\ [](\A p \in InProcs :
          ip[p].pc # "idle" /\ ip[p].sid = NoSid =>
            /\ ip[p].pc # "check" /\ ip[p].lookup = ""
            /\ ip[p].pc = "done" =>
                 /\ ip[p].result = "processed"
                 /\ ip[p].draftId \in DOMAIN sms_messages)
  /\ [][ \A p \in InProcs :
           ip[p].sid = NoSid /\ ip[p].pc = "store" /\ ip'[p].pc # "store" =>
             Len(sms_messages') = Len(sms_messages) + 1 ]_vars

\* C11 witness: a call without provider id ended processed while an
\* earlier row without provider id was already stored.
C11_Witness ==
  \E p \in InProcs :
    /\ ip[p].sid = NoSid /\ ip[p].pc = "done" /\ ip[p].result = "processed"
    /\ Cardinality(InboundRows(NoSid)) >= 2

\* C12 (as claimed): a call whose dedup lookup failed, by an error result
\* or by throwing, ends processed with a draft.
C12_LookupFailureFailsOpen ==
  \A p \in InProcs :
    ip[p].lookup \in {"error", "throws"} /\ ip[p].pc = "done" =>
      ip[p].result = "processed" /\ ip[p].draftId # 0

\* C12, the half that holds: a call whose dedup lookup returned an error
\* result ends processed with a draft.
C12_ErrorResultFailsOpen ==
  \A p \in InProcs :
    ip[p].lookup = "error" /\ ip[p].pc = "done" =>
      ip[p].result = "processed" /\ ip[p].draftId # 0

\* the step of decision p in which getPendingAction is called
ReadsRegistry(p) == dp[p].pc = "sa_approve" /\ dp'[p].pc # "sa_approve"

\* C13: a getPendingAction call on an entry older than 6 hours answers
\* null and deletes the entry; on an entry aged at most 6 hours it answers
\* the entry and leaves it as it was (until the caller clears it); an id
\* whose entry is gone stays without entry.
C13_ExpiryOnRead ==
  [][ /\ \A p \in DecProcs :
           LET entry == pendingActions[dp[p].mid] IN
           ReadsRegistry(p) /\ entry # NoEntry =>
             IF now' - entry.timestamp > ACTION_TTL_MS
               THEN /\ dp'[p].found = "absent"
                    /\ pendingActions'[dp[p].mid] = NoEntry
               ELSE /\ dp'[p].found = entry.type
                    /\ IsMenuAction(entry) => pendingActions'[dp[p].mid] = entry
      /\ \A i \in RowIds :
           hadAction[i] # "" /\ pendingActions[i] = NoEntry =>
             pendingActions'[i] = NoEntry ]_vars

\* C13 witness: an entry was read at the age of exactly 6 hours and
\* answered, and the apply call was issued.
C13_Witness ==
  \E p \in DecProcs :
    /\ dp[p].pc = "sa_apply"
    /\ pendingActions[dp[p].mid] # NoEntry
    /\ now - pendingActions[dp[p].mid].timestamp = ACTION_TTL_MS

\* C14: when the approval request is not delivered the call goes on to
\* the auto-approval, after which the draft row has status approved and
\* its body is the draft text, unmodified.
C14_AutoApproveOnNotifyFailure ==
  [][ \A p \in InProcs :
        LET id == ip[p].draftId IN
        /\ ip[p].pc = "notify" /\ ip'[p].pc # "notify" /\
           approvalRequests'[id] = approvalRequests[id] =>
             ip'[p].pc = "auto_approve"
        /\ ip[p].pc = "auto_approve" /\ ip'[p].pc # "auto_approve" =>
             /\ sms_messages'[id].status = "approved"
             /\ sms_messages'[id].body = DraftText
             /\ sms_messages'[id].body = sms_messages[id].draft_body ]_vars

\* C14 witness: a call has returned whose approval request failed and
\* whose draft is approved with the draft text as body.
C14_Witness ==
  \E p \in InProcs :
    /\ ip[p].pc = "done" /\ ip[p].draftId # 0
    /\ approvalRequests[ip[p].draftId] = 0
    /\ sms_messages[ip[p].draftId].status = "approved"
    /\ sms_messages[ip[p].draftId].body = DraftText

\* C15 (as claimed): a call that auto-approved its draft has issued
\* sendSMS for it by the time it returns.
C15_AutoApprovedIsSent ==
  \A p \in InProcs :
    ip[p].pc = "done" /\ ip[p].draftId # 0 /\
    sms_messages[ip[p].draftId].status = "approved" =>
      smsInvoked[ip[p].draftId] > 0

\* C16 (as claimed): after the sendSMS call of a decision failed, the
\* message has status failed.
C16_SendFailureMarksFailed ==
  \A p \in DecProcs :
    dp[p].sendFailed => StatusOf(dp[p].mid) = "failed"

\* no decision handler is in flight
Quiescent == \A p \in DecProcs : dp[p].pc \in {"idle", "done"}

\* C17 (as claimed): when every handler has returned, no outbound message
\* is left in approved.
C17_ApprovedIsTransient ==
  Quiescent => \A i \in Drafts : StatusOf(i) # "approved"

\* edit records / reject records of the corrections table
EditRecords == { k \in DOMAIN draft_corrections : draft_corrections[k].action = "edit" }
RejectRecords == { k \in DOMAIN draft_corrections : draft_corrections[k].action = "reject" }

C20_EditRecordOnlyOnChange ==
  \A k \in EditRecords :
    draft_corrections[k].corrected_text # draft_corrections[k].original_draft

\* C20, the half that holds: an approve decision stores no record.
C20_ApproveStoresNoRecord ==
  [][ \A p \in DecProcs :
        dp[p].action = "approve" /\ dp'[p] # dp[p] /\ dp'[p].action = "approve" =>
          draft_corrections' = draft_corrections ]_vars

\* the attempts on reminder id that are between their claim and their
\* final update
ActiveAttempts(id) ==
  { r \in RunProcs : rr[r].pc \in {"call", "settle"} /\ Head(rr[r].queue).id = id }

\* C23 (as claimed): of the attempts on a reminder that are in flight
\* together, once one has made the pending->calling transition every other
\* one sees no row updated: it never claims the reminder.
C23_ExactlyOneClaims ==
  \A r \in RunProcs : rr[r].lost => ~rr[r].claimed

\* C23 (amended): a conditional update that finds the reminder not pending
\* updates no row, and its attempt returns without a call to the voice
\* API, a change of the reminder or a notification; at any time at most
\* one attempt per reminder is between its claim and its final update, and
\* the reminder is in calling for as long as it is.  (An attempt whose
\* update lands after the earlier attempt failed and set the reminder back
\* to pending claims it again.)
C23_OneActiveAttempt ==
  [][ /\ \A id \in ReminderIds :
           /\ Cardinality(ActiveAttempts(id)') <= 1
           /\ ActiveAttempts(id)' # {} => reminders'[id].status = "calling"
      /\ \A r \in RunProcs :
           rr[r].pc = "claim" /\ rr'[r] # rr[r] /\
           reminders[Head(rr[r].queue).id].status # "pending" =>
             /\ reminders' = reminders
             /\ vapiCalls' = vapiCalls
             /\ reminderNotices' = reminderNotices
             /\ ~rr'[r].claimed ]_vars

\* C23 witness: a run has claimed a reminder and its call is out while the
\* claim of another run for the same reminder is in flight.
C23_Witness ==
  \E r, q \in RunProcs :
    /\ rr[r].pc = "call" /\ rr[q].pc = "claim" /\ rr[q].lost
    /\ Head(rr[r].queue).id = Head(rr[q].queue).id
    /\ reminders[Head(rr[r].queue).id].status = "calling"

\* C24 (as claimed): at most 3 calls are ever placed for a reminder, and a
\* reminder whose status is failed has retry_count 3.
C24_AtMostThreeCalls ==
  \A id \in ReminderIds :
    /\ vapiCalls[id] <= MAX_RETRIES
    /\ reminders[id].status = "failed" => reminders[id].retry_count = MAX_RETRIES

\* C21: whatever the correction path does (the insert fails, the rule
\* extraction fails at any of its stages, or all of it succeeds), the step
\* of the decision that issues storeCorrection leaves the handler, the
\* message status, the registry and the SMS and apply calls as the
\* successful path does, and the steps of the rule extraction touch
\* nothing but the learner's columns.
C21_CorrectionPathIsolated ==
  [][ /\ \A p \in DecProcs :
           /\ dp[p].pc = "wb_edit" /\ dp'[p] # dp[p] =>
                /\ dp'[p] = [dp[p] EXCEPT !.pc = "sa_get", !.dbMessage = NoMessage]
                /\ sms_messages' = sms_messages
                /\ pendingActions' = pendingActions
           /\ dp[p].pc \in {"wb_rj", "rj_write"} /\ dp'[p] # dp[p] =>
                /\ dp'[p] = [dp[p] EXCEPT !.pc = "done", !.dbMessage = NoMessage,
                                          !.incomingContext = 0,
                                          !.wrote = TRUE]
                /\ sms_messages' = rejectMessage(sms_messages, dp[p].mid)
                /\ pendingActions' = clearPendingAction(pendingActions, dp[p].mid)
           /\ dp[p].pc \in {"wb_edit", "wb_rj", "rj_write"} /\ dp'[p] # dp[p] =>
                /\ smsInvoked' = smsInvoked
                /\ applyInvoked' = applyInvoked
                /\ approvalRequests' = approvalRequests
      /\ ruleColumns' # ruleColumns => UNCHANGED Core ]_vars

\* C21 witness: the SMS of an edit decision was sent although the insert
\* of its correction failed, and the rule extraction of a stored
\* correction has failed.
C21_Witness ==
  \E i \in Drafts :
    /\ smsInvoked[i] = 1 /\ sms_messages[i].body = <<"x">>
    /\ \A k \in EditRecords : draft_corrections[k].source_record_id # i
    /\ \E k \in DOMAIN draft_corrections :
         RuleOf(k).extraction = "done" /\ ~RuleOf(k).correction_rule

\* the lookups of the message in hand that did not end with their data
FailedLookups == { l \in Lookups : gen.outcome[l] \in {"error", "throws"} }

\* the value the message in hand passes on for a lookup
PassedOn(l) ==
  CASE l = "client" -> gen.clientContext
    [] l = "business" -> gen.businessContext
    [] l = "calendar" -> gen.calendarContext

\* C22 (as claimed): when one of the four lookups of a message fails, by
\* error result or by exception, the message still gets its draft stored in
\* pending_approval, the failed lookup contributes its empty or default
\* value, and the other lookups pass on what they pass on when none fails.
C22_LookupFailureIsolated ==
  gen.pc = "done" /\ Cardinality(FailedLookups) = 1 =>
    /\ gen.result = "processed"
    /\ gen.draftMessage.status = "pending_approval"
    /\ \A l \in Lookups \ {"history"} :
         PassedOn(l) = ValueOf(l, IF l \in FailedLookups THEN "error" ELSE "ok")
    /\ "history" \in FailedLookups => gen.history = 0

\* C26: generateDraftReply returns a draft for every outcome of the model
\* call, the fallback reply when the call fails, times out or answers
\* without text; every stored message whose lookups completed has its
\* draft returned by storeDraftReply in pending_approval.
C26_AlwaysSomeDraft ==
  /\ gen.pc \in {"store", "done"} /\ gen.result # "failed" =>
       /\ gen.draft \in {"template", "model", "fallback"}
       /\ gen.modelCall \in ModelOutcomes \ {"text"} => gen.draft = "fallback"
       /\ gen.modelCall = "text" => gen.draft = "model"
  /\ gen.pc = "done" /\ gen.outcome["history"] # "throws" =>
       /\ gen.result = "processed"
       /\ gen.draftMessage.status = "pending_approval"
       /\ gen.draftMessage.direction = "outbound"
       /\ gen.draftMessage.conversation_id = gen.convId

\* C26 witness: the model call of a follow-up timed out and the fallback
\* reply was stored as the draft.
C26_Witness ==
  /\ gen.pc = "done" /\ gen.mode = "follow_up" /\ gen.modelCall = "timeout"
  /\ gen.draft = "fallback"
  /\ gen.draftMessage.status = "pending_approval"

\* C27 (as claimed): a message is answered in first-contact mode exactly
\* when it is the first inbound message of its conversation.
C27_FirstContactIffFirstInbound ==
  gen.mode # "" => (gen.mode = "first" <=> gen.first)

\* C25 (as claimed): an approve or a reject handled through the bot callback
\* and the same decision handled through the web form, each finding its
\* message in the same state when it arrives (and, for a message still
\* pending, with no other decision for it in flight), agree on whether a
\* status is written.
C25_FrontEndsAgree ==
  \A p, q \in DecProcs :
    /\ dp[p].pc = "done" /\ dp[q].pc = "done"
    /\ dp[p].front = "telegram" /\ dp[q].front = "web"
    /\ dp[p].action = dp[q].action /\ dp[p].action \in {"approve", "reject"}
    /\ dp[p].start = dp[q].start
    /\ dp[p].start = "pending" => dp[p].alone /\ dp[q].alone
    => dp[p].wrote = dp[q].wrote

\* the inbound rows of the table
AllInbound == { i \in DOMAIN sms_messages : sms_messages[i].direction = "inbound" }

Unpromoted ==
  { k \in DOMAIN draft_corrections :
      RuleOf(k).correction_rule /\ ~RuleOf(k).promoted_to_mem0 }

\* C29: every row whose rule was extracted and whose promotion flag is
\* false is eventually retried by the reconciliation job
\* (promoteRuleToPgvector is issued for it) or is promoted.
C29_UnpromotedEventuallyRetried ==
  \A k \in CorrIds :
    (k \in Unpromoted) ~>
      \/ k \notin Unpromoted
      \/ rj.pc = "promote" /\ Head(rj.batch) = k

\* C30: there is at most one row of sms_conversations per phone number.
C30_OneConversationPerPhone ==
  \A phone \in Phones : Cardinality(ConvsOf(phone)) <= 1

\* the items a question of the templates asks for
ItemsOf(question) ==
  CASE question = "group_size" -> {"group_size"}
    [] question = "date" -> {"date"}
    [] question = "address" -> {"location"}
    [] question = "date_and_location" -> {"date", "location"}
    [] question = "date_and_group_size" -> {"date", "group_size"}
    [] question = "location" -> {"location"}
    [] OTHER -> {}

\* the questions the template of an inquiry type can ask
TemplateQuestions(type) ==
  CASE type = "workshop" -> {"group_size", "date", "address"}
    [] type = "bar_service" ->
         {"date_and_location", "rental", "glassware", "alcohol"}
    [] OTHER -> {"date_and_group_size", "location"}

\* the message supplies the item
Supplies(text, item) ==
  CASE item = "date" -> Test("hasDate", text)
    [] item = "group_size" -> Test("hasGuestCount", text)
    [] item = "location" -> Test("hasLocation", text)

Asked(reply) == { reply.questions[j] : j \in DOMAIN reply.questions }

SarahMessage ==
  { "hi, this is Sarah", "need a quote", "for June 15", "for 80 people" }

\* C31: in the first-contact reply a question about date, group size or
\* location is left out exactly when the message supplies what it asks
\* for, for every inquiry type and language, and the questions about
\* other things are kept; the message of Sarah gives the name Sarah,
\* English, bar_service, and the rental, glassware and alcohol questions.
C31_TemplateOmitsSupplied ==
  gen.reply # NoReply =>
    /\ \A q \in TemplateQuestions(gen.reply.type) :
         q \in Asked(gen.reply) <=>
           ~(ItemsOf(q) # {} /\
             \A item \in ItemsOf(q) : Supplies(gen.incomingMessage, item))
    /\ gen.incomingMessage = SarahMessage =>
         /\ gen.reply.greeting = "Sarah"
         /\ gen.reply.lang = "en"
         /\ gen.reply.type = "bar_service"
         /\ {"rental", "glassware", "alcohol"} \subseteq Asked(gen.reply)

\* C32: a processIncomingMessage call made with sendApproval false (the
\* call of POST /simulate when the request does not ask for the approval)
\* returns its draft without an approval request or any other message to
\* the reviewer, without a sendSMS call and without an apply call: the
\* draft is left in pending_approval.
C32_SimulateSendsNothing ==
  \A p \in InProcs :
    ip[p].result = "processed" /\ ~ip[p].sendApproval =>
      /\ ip[p].pc = "done"
      /\ ip[p].draftId \in Drafts
      /\ approvalRequests[ip[p].draftId] = 0
      /\ sms_messages[ip[p].draftId].status = "pending_approval"
      /\ smsInvoked[ip[p].draftId] = 0
      /\ applyInvoked[ip[p].draftId] = 0

\* C32 witness: a dry run has returned a draft with a detected action
\* while the draft of another delivery went to the reviewer.
C32_Witness ==
  \E p, q \in InProcs :
    /\ ip[p].pc = "done" /\ ip[p].result = "processed" /\ ~ip[p].sendApproval
    /\ hadAction[ip[p].draftId] # ""
    /\ ip[q].pc = "done" /\ ip[q].sendApproval
    /\ approvalRequests[ip[q].draftId] = 1

\* the inbound rows of a conversation stored before row d
InboundBefore(conversationId, d) ==
  { i \in AllInbound :
      i < d /\ sms_messages[i].conversation_id = conversationId }

\* C33: the steps of a processIncomingMessage call come in order: the
\* dedup check is answered before the inbound row is stored, the inbound
\* row is stored before the draft is made, and the approval request is
\* sent only once the draft is stored in pending_approval and its
\* PendingAction, if the evaluation gave one, is registered; a draft the
\* reviewer was asked about has its row and its PendingAction.
C33_StepsInOrder ==
  /\ \A p \in InProcs :
       LET d == ip[p].draftId IN
       /\ ip[p].pc = "store" /\ HasSid(ip[p].sid) => ip[p].lookup = "answered"
       /\ ip[p].pc \in {"conv_find", "conv_write", "check", "store",
                        "store_draft"} => d = 0
       /\ ip[p].pc = "store_draft" =>
            \E i \in AllInbound :
              sms_messages[i].conversation_id = ip[p].convId
       /\ ip[p].pc \in {"notify", "auto_approve"} =>
            /\ d \in Drafts
            /\ InboundBefore(ip[p].convId, d) # {}
            /\ hadAction[d] # "" => pendingActions[d] # NoEntry
       /\ ip[p].pc = "notify" =>
            /\ sms_messages[d].status = "pending_approval"
            /\ approvalRequests[d] = 0
  /\ \A d \in RowIds :
       approvalRequests[d] > 0 =>
         /\ d \in Drafts
         /\ InboundBefore(sms_messages[d].conversation_id, d) # {}
         /\ hadAction[d] # "" => pendingActions[d] # NoEntry

\* C33, the draft: generateDraftReply starts only when the four lookups
\* have settled, and a draft is stored only when generateDraftReply has
\* returned one.
C33_DraftAfterLookups ==
  /\ gen.pc \in {"generate", "store"} =>
       /\ \A l \in Lookups : gen.outcome[l] \in LookupOutcomes
       /\ gen.outcome["history"] # "throws"
  /\ gen.pc = "lookups" => gen.mode = "" /\ gen.draft = ""
  /\ gen.pc = "store" => gen.draft # "" /\ gen.draftMessage = NoMessage

\* C33 witness: the reviewer was asked about a draft that has a
\* PendingAction, made for a delivery that went through the dedup check.
C33_Witness ==
  \E p \in InProcs :
    /\ ip[p].pc = "done" /\ ip[p].lookup = "answered"
    /\ ip[p].draftId \in Drafts
    /\ approvalRequests[ip[p].draftId] = 1
    /\ hadAction[ip[p].draftId] # ""
    /\ pendingActions[ip[p].draftId] # NoEntry

\* C34: when the draft of a message is stored, a PendingAction is
\* registered for its id exactly when the evaluator answered ok with
\* status ready and an action type, and its type is that action; for
\* every other answer (no_action, ambiguous, not_found, a failure or a
\* timeout) none is registered; in every case the draft is stored in
\* pending_approval.
C34_PendingActionIffReady ==
  [][ gen.pc = "store" /\ gen'.pc # "store" =>
        LET d == gen'.draftMessage.id
            r == gen.actionResult
        IN /\ r \in EvalAnswers
           /\ d \in DOMAIN sms_messages' /\ d \notin DOMAIN sms_messages
           /\ sms_messages'[d].status = "pending_approval"
           /\ sms_messages'[d].direction = "outbound"
           /\ pendingActions[d] = NoEntry
           /\ IF r.ok /\ r.status = "ready" /\ r.action # ""
                THEN pendingActions'[d].type = r.action
                ELSE pendingActions'[d] = NoEntry
           /\ \A i \in RowIds \ {d} : pendingActions'[i] = pendingActions[i]
    ]_vars

\* C34 witness: a draft was stored with its PendingAction after a draft
\* whose evaluation named an action but could not tell the event, which
\* has none.
C34_Witness ==
  /\ gen.pc = "done" /\ gen.actionResult.status = "ready"
  /\ gen.draftMessage.id \in Drafts
  /\ pendingActions[gen.draftMessage.id].type = "update_menu"
  /\ \E i \in Drafts :
       /\ i < gen.draftMessage.id
       /\ sms_messages[i].status = "pending_approval"
       /\ pendingActions[i] = NoEntry

\* C35: a step that changes the row or the PendingAction of a message is
\* a step of a decision on that very message; of the row it leaves the
\* conversation, the direction and the draft as they were.  The rows and
\* PendingActions of all other messages are unchanged, so each of them
\* stays open to its own decision.
C35_DecisionTouchesOnlyItsMessage ==
  [][ \A i \in DOMAIN sms_messages :
        sms_messages'[i] # sms_messages[i] \/
        pendingActions'[i] # pendingActions[i] =>
          /\ \E p \in DecProcs :
               /\ dp[p].mid = i
               /\ dp[p].pc \notin {"idle", "done"}
               /\ dp'[p] # dp[p]
               /\ \A q \in DecProcs \ {p} : dp'[q] = dp[q]
          /\ sms_messages'[i].conversation_id = sms_messages[i].conversation_id
          /\ sms_messages'[i].direction = sms_messages[i].direction
          /\ sms_messages'[i].draft_body = sms_messages[i].draft_body
    ]_vars

\* C35 witness: of two drafts of one conversation that were pending with
\* a PendingAction each, one was approved and sent and its entry cleared;
\* the other is as it was.
C35_Witness ==
  \E a, b \in Drafts :
    /\ a # b
    /\ sms_messages[a].conversation_id = sms_messages[b].conversation_id
    /\ sms_messages[a].status = "sent" /\ hadAction[a] # ""
    /\ pendingActions[a] = NoEntry
    /\ sms_messages[b].status = "pending_approval"
    /\ hadAction[b] # "" /\ pendingActions[b] # NoEntry

\* the changes of status a reminder can make
StatusEdges ==
  { << "", "pending" >>, << "pending", "calling" >>,
    << "calling", "completed" >>, << "calling", "pending" >>,
    << "calling", "failed" >>, << "pending", "cancelled" >> }

\* C36: the status of a reminder changes only along pending->calling,
\* calling->completed, calling->pending after a failed attempt that is not
\* the third, calling->failed after the third failed attempt, and
\* pending->cancelled; completed, failed and cancelled are left by no
\* step, and no call is placed for a cancelled reminder.  (Every call
\* placed for a reminder that is still worked on has failed, so the calls
\* placed count its failed attempts.)
C36_StatusTransitions ==
  [][ \A id \in ReminderIds :
        /\ reminders'[id].status # reminders[id].status =>
             /\ << reminders[id].status, reminders'[id].status >> \in StatusEdges
             /\ reminders[id].status = "calling" /\
                reminders'[id].status = "pending" =>
                  vapiCalls[id] < MAX_RETRIES
             /\ reminders[id].status = "calling" /\
                reminders'[id].status = "failed" =>
                  vapiCalls[id] = MAX_RETRIES
        /\ reminders[id].status = "cancelled" =>
             vapiCalls'[id] = vapiCalls[id] ]_vars

\* C36, the graph alone: the status changes along the edges only, the
\* three final statuses are left by no step, and no call is placed for a
\* cancelled reminder.
C36_TransitionGraph ==
  [][ \A id \in ReminderIds :
        /\ reminders'[id].status # reminders[id].status =>
             << reminders[id].status, reminders'[id].status >> \in StatusEdges
        /\ reminders[id].status = "cancelled" =>
             vapiCalls'[id] = vapiCalls[id] ]_vars

\* ---------------------------------------------------------------------------
\* routes/approval.js: the approval form mounted at /approval
\* ---------------------------------------------------------------------------

\* routes/approval.js:25,50  the form is open only for a row in status draft
\* (if (dbMessage.status !== 'draft') the answer is 'Already Processed')
FormOpen(dbMessage) == dbMessage.status = "draft"

\* POST /approval/:messageId arrives with its action; getMessage is issued
FormPost(p) ==
  /\ dp[p].pc \in {"idle", "done"}
  /\ Cardinality(Drafts) + decided < MaxEvents
  /\ decided' = decided + 1
  /\ \E action \in {"approve", "reject", "other"}, messageId \in Drafts :
       dp' = [dp EXCEPT ![p] =
                [IdleDec EXCEPT !.front = "form", !.action = action,
                                !.mid = messageId,
                                !.start = StartOf(messageId),
                                !.alone = NoneInFlight(messageId),
                                !.pc = "fm_get"]]
  /\ UNCHANGED << sms_messages, draft_corrections, pendingActions, smsInvoked,
                  applyInvoked, applyOk, rejectProcessed >>
  /\ UNCHANGED DecFrame
  /\ UNCHANGED Rest

\* getMessage returns: 404 for no row, 'Already Processed' for a row that is
\* not open, otherwise the decision itself.  The steps behind the guard
\* (approveMessage, sendSMS, markMessageSent; or rejectMessage) are taken in
\* this one step, the text sent being dbMessage.body.
FormGet(p) ==
  /\ dp[p].pc = "fm_get"
  /\ LET dbMessage == getMessage(dp[p].mid) IN
     IF dbMessage = NoMessage
       THEN /\ dp' = [dp EXCEPT ![p].pc = "done", ![p].found = "not_found"]
            /\ UNCHANGED << sms_messages, smsInvoked >>
     ELSE IF ~FormOpen(dbMessage)
       THEN /\ dp' = [dp EXCEPT ![p].pc = "done",
                                ![p].found = "already_processed",
                                ![p].dbMessage = dbMessage]
            /\ UNCHANGED << sms_messages, smsInvoked >>
     ELSE
       CASE dp[p].action = "approve" ->
              \E sent \in BOOLEAN :
                /\ sms_messages' =
                     IF sent
                       THEN markMessageSent(
                              approveMessage(sms_messages, dp[p].mid,
                                             dbMessage.body),
                              dp[p].mid, OutSid(dp[p].mid))
                       ELSE approveMessage(sms_messages, dp[p].mid,
                                           dbMessage.body)
                /\ smsInvoked' = [smsInvoked EXCEPT ![dp[p].mid] = @ + 1]
                /\ dp' = [dp EXCEPT ![p].pc = "done", ![p].sendCalled = TRUE,
                                    ![p].wrote = TRUE,
                                    ![p].dbMessage = dbMessage]
        [] dp[p].action = "reject" ->
              /\ sms_messages' = rejectMessage(sms_messages, dp[p].mid)
              /\ dp' = [dp EXCEPT ![p].pc = "done", ![p].wrote = TRUE,
                                  ![p].dbMessage = dbMessage]
              /\ UNCHANGED smsInvoked
        [] OTHER ->
              /\ dp' = [dp EXCEPT ![p].pc = "done", ![p].found = "invalid"]
              /\ UNCHANGED << sms_messages, smsInvoked >>
  /\ UNCHANGED << draft_corrections, pendingActions, applyInvoked, applyOk,
                  rejectProcessed >>
  /\ UNCHANGED << DecFrame, decided >>
  /\ UNCHANGED Rest

\* drafts arrive and one handler of the form decides them
NextLegacyForm ==
  \/ DraftArrives
  \/ \E p \in {1} : FormPost(p)
  \/ \E p \in {1} : FormGet(p)

SpecLegacyForm == Init /\ [][NextLegacyForm]_vars

\* C37: the form answers 'Already Processed' only for a message that has been
\* decided: a POST for a message still in pending_approval, as storeDraftReply
\* stored it, passes the guard (and so goes on to approveMessage and sendSMS).
C37_FormOpenForUndecided ==
  \A p \in DecProcs :
    dp[p].front = "form" /\ dp[p].found = "already_processed" =>
      dp[p].dbMessage.status # "pending_approval"

\* what the form does instead: no POST of the form reaches sendSMS or writes
FormNeverDecides ==
  \A p \in DecProcs :
    dp[p].front = "form" => ~dp[p].sendCalled /\ ~dp[p].wrote

\* DraftArrives stores an inbound message and its draft together: the draft
\* in row d was generated for the inbound message in row d - 1
GeneratedFor(d) == d - 1

\* C38: the incoming context of a CorrectionRecord is the inbound message the
\* corrected or rejected draft was generated for, also when further inbound
\* messages of the conversation were stored before the decision.
C38_ContextIsAnsweredMessage ==
  \A k \in DOMAIN draft_corrections :
    draft_corrections[k].incoming_context =
      GeneratedFor(draft_corrections[k].source_record_id)

\* every draft row follows the inbound message of its own conversation
DraftFollowsItsInbound ==
  \A d \in Drafts :
    /\ GeneratedFor(d) \in DOMAIN sms_messages
    /\ sms_messages[GeneratedFor(d)].direction = "inbound"
    /\ sms_messages[GeneratedFor(d)].conversation_id =
         sms_messages[d].conversation_id

\* reminderScheduler.js:141-148, 173-179, 185-191  the update that settles the
\* attempt returns an error: its result is not read, the row keeps the status
\* it has, and processReminder goes on as after a write (the reviewer is told
\* of a call placed or of the last failure) and returns.
SettleFails(r) ==
  /\ rr[r].pc = "settle"
  /\ LET reminder == Head(rr[r].queue)
         id == reminder.id
     IN reminderNotices' =
          IF \/ rr[r].outcome = "placed"
             \/ reminder.retry_count + 1 >= MAX_RETRIES
            THEN [reminderNotices EXCEPT ![id] = @ + 1]
            ELSE reminderNotices
  /\ rr' = [rr EXCEPT ![r] = NextReminder(rr[r])]
  /\ UNCHANGED << reminders, vapiCalls, checks >>
  /\ UNCHANGED << Core, LearnerVars, gen >>

\* the reminder scheduler with status writes that can fail
NextReminderFaults ==
  \/ NextReminders
  \/ \E r \in RunProcs : SettleFails(r)

SpecReminderFaults == Init /\ [][NextReminderFaults]_vars

\* C39: a reminder in calling is held by a processReminder run that has not
\* yet returned, whatever the voice API and the status writes answer: when the
\* run returns the reminder is completed, pending or failed, so none stays in
\* calling for ever (no run takes up a reminder that is not pending).
C39_CallingLeavesWithItsRun ==
  \A id \in ReminderIds :
    reminders[id].status = "calling" => ActiveAttempts(id) # {}

\* a text of spaces only, or of nothing
Blank(s) == \A i \in 1..Len(s) : IsSpace(s[i])

\* what a decision can change: the rows, the PendingActions, the SMS sent,
\* the apply calls and the CorrectionRecords
DecisionEffects ==
  << sms_messages, pendingActions, smsInvoked, applyInvoked, draft_corrections >>

\* C40: a web-form decision on a message in pending_approval with an
\* unrecognised action, or with an edit whose text is blank, ends there with
\* answer 400 (an edit goes on only with a text that is not blank), and a
\* Telegram callback with an unknown action ends at once; neither changes the
\* row, its PendingAction, the SMS sent, the apply calls or the
\* CorrectionRecords.
C40_InvalidDecisionChangesNothing ==
  [][\A p \in DecProcs :
       /\ ( /\ dp[p].pc = "wb_get"
            /\ getMessage(dp[p].mid).status = "pending_approval"
            /\ dp'[p] # dp[p]
            /\ dp[p].action \notin {"approve", "reject"} ) =>
              /\ UNCHANGED DecisionEffects
              /\ IF dp'[p].pc = "done"
                   THEN dp'[p].answer = 400
                   ELSE /\ dp[p].action = "edit"
                        /\ dp'[p].pc = "wb_edit"
                        /\ ~Blank(dp'[p].body)
       /\ ( /\ dp[p].pc \in {"idle", "done"}
            /\ decided' # decided
            /\ dp'[p].front = "telegram"
            /\ dp'[p].action \notin {"approve", "reject"} ) =>
              /\ UNCHANGED DecisionEffects
              /\ dp'[p].pc = "done"
    ]_vars

\* the form has refused a blank edit of a message, and a Telegram callback
\* with an unknown action for the same message has ended; the message has its
\* PendingAction and is still in pending_approval
C40_Witness ==
  \E p, q \in DecProcs, i \in Drafts :
    /\ p # q
    /\ sms_messages[i].status = "pending_approval"
    /\ pendingActions[i] # NoEntry
    /\ dp[p].front = "web" /\ dp[p].mid = i /\ dp[p].pc = "done"
    /\ dp[p].action = "edit" /\ dp[p].answer = 400
    /\ dp[q].front = "telegram" /\ dp[q].mid = i /\ dp[q].pc = "done"
    /\ dp[q].action \notin {"approve", "reject"}

====
